---- MODULE Spec2Model ----
(***************************************************************************)
(* Model of the Facebook events scraper (src/__init__.py).                 *)
(*                                                                         *)
(* Python strings are modelled as sequences of one-character strings, so   *)
(* that concatenation, splitting and formatting are computed, not assumed. *)
(* A Python dict is modelled as a sequence of [key, value] entries with    *)
(* pairwise distinct keys, in insertion order.                             *)
(***************************************************************************)
EXTENDS Integers, Sequences, FiniteSets, TLC

VARIABLES
    \* ---- _merge_results ----
    m_results,      \* the list of PageResults handed to _merge_results
    m_pc,           \* "collect" | "merged" | "remerged_p" | "remerged_m"
    m_merged,       \* the dataset returned by _merge_results(m_results)
    m_again,        \* the dataset returned by the second merge
    \* ---- _convert_date ----
    d_input,        \* the date_string argument
    d_today,        \* datetime.now(UTC+1).date(), as [year, month, day]
    d_pc,           \* "idle" | "start" | "converted"
    d_result,       \* what the call did: [raised, value]
    \* ---- _save_events ----
    s_events,       \* the merged dataset handed to _save_events
    s_pc,           \* "idle" | "start" | "writing" | "saved" | "raised"
    s_store,        \* events_data.json: the date keys and buckets in the file
    s_closed,       \* events_data.json ends with the closing brace of its document
    \* ---- _scrape_page_with_retry ----
    r_pc,           \* where the call stands
    r_attempt,      \* the loop variable of "for attempt in range(max_retries)"
    r_page_open,    \* the page of the current attempt is open
    r_left_open,    \* a page whose close() raised is still open in the context
    r_pending,      \* what _scrape_page returns once its finally block has run
    r_log,          \* history: how each attempt of _scrape_page ended
    r_waited,       \* history: the time slept between attempts
    r_result,       \* what _scrape_page_with_retry returned
    \* ---- scrape_events ----
    b_urls,         \* urls = self._read_urls()
    b_pc,           \* where the run stands
    b_i,            \* the loop variable of "for i in range(0, len(urls), batch_size)"
    b_k,            \* position in the batch of the URL of "for url in batch"
    b_batch_results, \* batch_results
    b_results,      \* results
    b_events,       \* events = self._merge_results(results)
    b_context_open, \* the browser context is open
    b_browser_open, \* the browser is open
    b_outcome,      \* "running" | "completed" | "cancelled" | "failed"
    b_batches,      \* history: the batches taken from urls
    b_trace,        \* history: per processed URL, how its last attempt ended
    b_slept,        \* history: the time slept between batches
    b_merges,       \* history: the calls of _merge_results
    b_saves,        \* history: the calls of _save_events
    \* ---- _scroll_page ----
    sc_pc,          \* "idle" | "scroll" | "done"
    sc_scroll,      \* the scrolls made so far
    last_event_count,
    no_new_events_count,
    sc_before,      \* history: the title count when _scroll_page was called
    sc_counts,      \* history: current_count after each scroll
    sc_error,       \* history: the except clause of _scroll_page ran
    \* ---- LLMEventParser.parse_with_llm ----
    l_html,         \* the html_content argument
    l_reply,        \* what the request to the LLM server brings
    l_pc,           \* "idle" | "start" | "done"
    l_prompt,       \* the prompt sent (empty when none was built)
    l_result,       \* what the call did: [raised, value]
    \* ---- _parse_content and _extract_event_data ----
    p_containers,   \* the parents of the title elements of the page, in document order
    p_today,        \* the date of the day, read by _convert_date
    p_idx,          \* the loop variable idx of _parse_content
    p_events,       \* events
    p_event_data,   \* event_data
    p_pc,           \* "idle" | "loop" | "extracted" | "done" | "raised"
    p_extracted,    \* history: what _extract_event_data returned for each container
    \* ---- _clean_url ----
    u_href,         \* the url argument: the href of an events link
    u_pc,           \* "idle" | "start" | "cleaned" | "again"
    u_link,         \* what _clean_url(u_href) returned
    u_again,        \* what _clean_url(u_link) returned
    \* ---- the ancestor walk of _extract_event_data ----
    w_chain,        \* the container and its ancestors, the document object last
    w_root,         \* root: a position in w_chain, or beyond it for None
    w_steps,        \* history: the times "root = root.parent" ran
    w_pc            \* "idle" | "walk" | "found" | "none"

mergeVars == <<m_results, m_pc, m_merged, m_again>>
dateVars == <<d_input, d_today, d_pc, d_result>>

saveVars == <<s_events, s_pc, s_store, s_closed>>

retryVars == <<r_pc, r_attempt, r_page_open, r_left_open, r_pending, r_log, r_waited,
               r_result>>

runVars == <<b_urls, b_pc, b_i, b_k, b_batch_results, b_results, b_events,
             b_context_open, b_browser_open, b_outcome, b_batches, b_trace, b_slept,
             b_merges, b_saves>>

scrollVars == <<sc_pc, sc_scroll, last_event_count, no_new_events_count,
                sc_before, sc_counts, sc_error>>

llmVars == <<l_html, l_reply, l_pc, l_prompt, l_result>>

parseVars == <<p_containers, p_today, p_idx, p_events, p_event_data, p_pc, p_extracted>>

urlVars == <<u_href, u_pc, u_link, u_again>>

walkVars == <<w_chain, w_root, w_steps, w_pc>>

vars == <<mergeVars, dateVars, saveVars, retryVars, runVars, scrollVars, llmVars, parseVars, urlVars, walkVars>>

\* what each component leaves alone
notMerge == <<dateVars, saveVars, retryVars, runVars, scrollVars, llmVars, parseVars, urlVars, walkVars>>
notDate == <<mergeVars, saveVars, retryVars, runVars, scrollVars, llmVars, parseVars, urlVars, walkVars>>
notSave == <<mergeVars, dateVars, retryVars, runVars, scrollVars, llmVars, parseVars, urlVars, walkVars>>
notRetry == <<mergeVars, dateVars, saveVars, runVars, scrollVars, llmVars, parseVars, urlVars, walkVars>>
notRun == <<mergeVars, dateVars, scrollVars, llmVars, parseVars, urlVars, walkVars>>
notScroll == <<mergeVars, dateVars, saveVars, retryVars, runVars, llmVars, parseVars, urlVars, walkVars>>
notLlm == <<mergeVars, dateVars, saveVars, retryVars, runVars, scrollVars, parseVars, urlVars, walkVars>>
notParse == <<mergeVars, dateVars, saveVars, retryVars, runVars, scrollVars, llmVars, urlVars, walkVars>>
notUrl == <<mergeVars, dateVars, saveVars, retryVars, runVars, scrollVars, llmVars, parseVars, walkVars>>
notWalk == <<mergeVars, dateVars, saveVars, retryVars, runVars, scrollVars, llmVars, parseVars, urlVars>>

(***************************************************************************)
(* Strings                                                                 *)
(***************************************************************************)
DateTBD == <<"D", "a", "t", "e", " ", "T", "B", "D">>

\* Python's None: the one value here that is not a sequence of characters
None == <<"None">>

LowerLetters ==
    <<"a", "b", "c", "d", "e", "f", "g", "h", "i", "j", "k", "l", "m",
      "n", "o", "p", "q", "r", "s", "t", "u", "v", "w", "x", "y", "z">>

UpperLetters ==
    <<"A", "B", "C", "D", "E", "F", "G", "H", "I", "J", "K", "L", "M",
      "N", "O", "P", "Q", "R", "S", "T", "U", "V", "W", "X", "Y", "Z">>

Digits == <<"0", "1", "2", "3", "4", "5", "6", "7", "8", "9">>

IsUpper(c) == \E i \in 1..Len(UpperLetters) : UpperLetters[i] = c
IsLower(c) == \E i \in 1..Len(LowerLetters) : LowerLetters[i] = c
IsLetter(c) == IsUpper(c) \/ IsLower(c)
IsDigit(c) == \E i \in 1..Len(Digits) : Digits[i] = c
IsSpace(c) == c \in {" ", "\n", "\t", "\r"}

LowerChar(c) ==
    IF IsUpper(c)
    THEN LowerLetters[CHOOSE i \in 1..Len(UpperLetters) : UpperLetters[i] = c]
    ELSE c

UpperChar(c) ==
    IF IsLower(c)
    THEN UpperLetters[CHOOSE i \in 1..Len(LowerLetters) : LowerLetters[i] = c]
    ELSE c

DigitValue(c) == (CHOOSE i \in 1..Len(Digits) : Digits[i] = c) - 1

\* str.lower()
Lower(s) == [i \in 1..Len(s) |-> LowerChar(s[i])]

\* str.title(): a letter is upper-cased after a non-letter, lower-cased after a letter
Title(s) ==
    [i \in 1..Len(s) |->
        IF i = 1 \/ ~IsLetter(s[i - 1]) THEN UpperChar(s[i]) ELSE LowerChar(s[i])]

\* s[:n]
Take(s, n) == SubSeq(s, 1, IF n < Len(s) THEN n ELSE Len(s))

\* s[n:] with n counted from 1
Drop(s, n) == SubSeq(s, n, Len(s))

RECURSIVE LStrip(_)
LStrip(s) == IF s # <<>> /\ IsSpace(Head(s)) THEN LStrip(Tail(s)) ELSE s

RECURSIVE RStrip(_)
RStrip(s) ==
    IF s # <<>> /\ IsSpace(s[Len(s)]) THEN RStrip(SubSeq(s, 1, Len(s) - 1)) ELSE s

\* str.strip()
Strip(s) == RStrip(LStrip(s))

Occurs(s, sub, i) ==
    /\ i + Len(sub) - 1 <= Len(s)
    /\ SubSeq(s, i, i + Len(sub) - 1) = sub

\* sub in s
Contains(s, sub) == \E i \in 1..Len(s) : Occurs(s, sub, i)

\* the first position of sub in s, 0 when there is none
Find(s, sub) ==
    IF Contains(s, sub)
    THEN CHOOSE i \in 1..Len(s) :
            Occurs(s, sub, i) /\ \A k \in 1..(i - 1) : ~Occurs(s, sub, k)
    ELSE 0

\* str.split(sep)
RECURSIVE Split(_, _)
Split(s, sep) ==
    LET i == Find(s, sep) IN
    IF i = 0 THEN <<s>>
    ELSE <<SubSeq(s, 1, i - 1)>> \o Split(Drop(s, i + Len(sep)), sep)

\* str.split(): the runs of non-whitespace characters
RECURSIVE SplitWs(_)
SplitWs(s) ==
    LET t == LStrip(s) IN
    IF t = <<>> THEN <<>>
    ELSE LET n == IF \E i \in 1..Len(t) : IsSpace(t[i])
                  THEN CHOOSE i \in 1..Len(t) :
                          IsSpace(t[i]) /\ \A k \in 1..(i - 1) : ~IsSpace(t[k])
                  ELSE Len(t) + 1
         IN <<SubSeq(t, 1, n - 1)>> \o SplitWs(Drop(t, n))

\* the outcome of an expression: a value, or an exception
Ok(v) == [raised |-> FALSE, value |-> v]
Raise == [raised |-> TRUE, value |-> <<>>]

RECURSIVE DigitsValue(_, _)
DigitsValue(s, acc) ==
    IF s = <<>> THEN acc ELSE DigitsValue(Tail(s), 10 * acc + DigitValue(Head(s)))

\* int(s): an optional sign and decimal digits, ValueError otherwise
ToInt(s) ==
    LET signed == s # <<>> /\ Head(s) \in {"+", "-"}
        body   == IF signed THEN Tail(s) ELSE s
    IN IF body = <<>> \/ \E i \in 1..Len(body) : ~IsDigit(body[i])
       THEN Raise
       ELSE IF signed /\ Head(s) = "-"
            THEN Ok(0 - DigitsValue(body, 0))
            ELSE Ok(DigitsValue(body, 0))

\* the decimal text of a natural number
RECURSIVE IntText(_)
IntText(n) ==
    IF n < 10 THEN <<Digits[n + 1]>> ELSE IntText(n \div 10) \o <<Digits[(n % 10) + 1]>>

(***************************************************************************)
(* datetime                                                                *)
(***************************************************************************)
IsLeap(y) == (y % 4 = 0 /\ y % 100 # 0) \/ y % 400 = 0

DaysInMonth(y, m) ==
    IF m = 2 THEN (IF IsLeap(y) THEN 29 ELSE 28)
    ELSE IF m \in {4, 6, 9, 11} THEN 30 ELSE 31

ValidDate(y, m, d) ==
    /\ y \in 1..9999
    /\ m \in 1..12
    /\ d \in 1..DaysInMonth(y, m)

\* mutant: the day is not checked against the month's length
DatetimeUnchecked(y, m, d) == Ok([year |-> y, month |-> m, day |-> d])

\* datetime(y, m, d): ValueError when the date does not exist
Datetime(y, m, d) ==
    IF ValidDate(y, m, d) THEN Ok([year |-> y, month |-> m, day |-> d]) ELSE Raise

\* mutant: only the years are compared
DateLessByYear(a, b) == a.year < b.year

\* a < b on dates
DateLess(a, b) ==
    \/ a.year < b.year
    \/ a.year = b.year /\ a.month < b.month
    \/ a.year = b.year /\ a.month = b.month /\ a.day < b.day

\* date + timedelta(days=1): OverflowError past year 9999
AddDay(t) ==
    IF t.day < DaysInMonth(t.year, t.month) THEN Ok([t EXCEPT !.day = @ + 1])
    ELSE IF t.month < 12 THEN Ok([t EXCEPT !.month = @ + 1, !.day = 1])
    ELSE IF t.year < 9999 THEN Ok([year |-> t.year + 1, month |-> 1, day |-> 1])
    ELSE Raise

Pad2(n) == <<Digits[(n \div 10) + 1], Digits[(n % 10) + 1]>>

Pad4(n) == Pad2(n \div 100) \o Pad2(n % 100)

\* mutant: day and month are written without a leading zero
StrftimeUnpadded(t) == IntText(t.day) \o <<"/">> \o IntText(t.month) \o <<"/">> \o Pad4(t.year)

\* date.strftime("%d/%m/%Y"), for years of four digits
Strftime(t) == Pad2(t.day) \o <<"/">> \o Pad2(t.month) \o <<"/">> \o Pad4(t.year)

(***************************************************************************)
(* _convert_date                                                           *)
(***************************************************************************)
\* MONTHS: the name at position n maps to the month number n
MONTHS ==
    <<<<"J", "a", "n">>, <<"F", "e", "b">>, <<"M", "a", "r">>, <<"A", "p", "r">>,
      <<"M", "a", "y">>, <<"J", "u", "n">>, <<"J", "u", "l">>, <<"A", "u", "g">>,
      <<"S", "e", "p">>, <<"O", "c", "t">>, <<"N", "o", "v">>, <<"D", "e", "c">>>>

InMonths(month) == \E n \in 1..Len(MONTHS) : MONTHS[n] = month
MonthNum(month) == CHOOSE n \in 1..Len(MONTHS) : MONTHS[n] = month

HappeningNow == <<"h", "a", "p", "p", "e", "n", "i", "n", "g", " ", "n", "o", "w">>
TodayWord == <<"t", "o", "d", "a", "y">>
TomorrowWord == <<"t", "o", "m", "o", "r", "r", "o", "w">>
AtSep == <<" ", "a", "t", " ">>

\* a call that has not returned: control falls through to the next statement
Fall == [raised |-> FALSE, returned |-> FALSE, value |-> <<>>]
Return(v) == [raised |-> FALSE, returned |-> TRUE, value |-> v]
Throw == [raised |-> TRUE, returned |-> FALSE, value |-> <<>>]

\* mutant: the candidate date in the current year is never rolled forward
ResolveYearNoRoll(month_num, day, today) == Datetime(today.year, month_num, day)

\* event_date = datetime(current_year, ...), rolled to current_year + 1 when past
ResolveYear(month_num, day, today) ==
    LET current_year == today.year
        event_date == Datetime(current_year, month_num, day)
    IN IF event_date.raised THEN Raise
       ELSE IF DateLess(event_date.value, today)
            THEN Datetime(current_year + 1, month_num, day)
            ELSE event_date

\* mutant: the text after the last comma is taken
AfterCommaLast(date_part) ==
    LET pieces == Split(date_part, <<",">>) IN Strip(pieces[Len(pieces)])

\* date_part.split(',')[1].strip()
AfterComma(date_part) == Strip(Split(date_part, <<",">>)[2])

\* the body of the inner try: parse "Fri, Mar 15 at 8:00 PM CET"
ParseStandard(date_string, today) ==
    LET before_at == Split(date_string, AtSep)[1]
        date_part == IF Contains(before_at, <<",">>)
                     THEN AfterComma(before_at)
                     ELSE before_at
        parts == SplitWs(date_part)
    IN IF Len(parts) >= 2
       THEN LET month == Title(Take(parts[1], 3))
                day == ToInt(parts[2])
            IN IF day.raised THEN Throw
               ELSE IF InMonths(month)
                    THEN LET event_date == ResolveYear(MonthNum(month), day.value, today)
                         IN IF event_date.raised THEN Throw
                            ELSE Return(Strftime(event_date.value))
                    ELSE Fall
       ELSE Fall

\* the inner try/except: an exception is logged and control falls through
TryParseStandard(date_string, today) ==
    LET r == ParseStandard(date_string, today) IN
    IF r.raised THEN Fall ELSE r

\* the body of the outer try
ConvertBody(date_string, today) ==
    IF date_string = None \/ date_string = <<>> THEN Ok(DateTBD)
    ELSE LET text == Lower(Strip(date_string)) IN
         IF Contains(text, HappeningNow) THEN Ok(Strftime(today))
         ELSE IF Contains(text, TodayWord) THEN Ok(Strftime(today))
         ELSE IF Contains(text, TomorrowWord)
              THEN LET next == AddDay(today) IN
                   IF next.raised THEN Raise ELSE Ok(Strftime(next.value))
              ELSE LET r == TryParseStandard(text, today) IN
                   IF r.returned THEN Ok(r.value) ELSE Ok(DateTBD)

\* the outer try/except: any exception is logged and "Date TBD" returned
_convert_date(date_string, today) ==
    LET r == ConvertBody(date_string, today) IN
    IF r.raised THEN Ok(DateTBD) ELSE r

(***************************************************************************)
(* Inputs of _convert_date                                                 *)
(***************************************************************************)
Weekdays == {<<"F", "r", "i">>, <<"M", "o", "n">>}

TimeSuffix == <<" ", "a", "t", " ", "7", " ", "P", "M">>

\* "<weekday>, <month-abbrev> <day> at <time>"
AbsText(weekday, month, day) ==
    weekday \o <<",", " ">> \o month \o <<" ">> \o day \o TimeSuffix

DayNumbers == {1, 5, 15, 28, 29, 30, 31}

AbsInputs ==
    {AbsText(wk, MONTHS[m], IntText(d)) : wk \in Weekdays, m \in 1..12, d \in DayNumbers}

\* the character U+2013, which the module's ASCII text cannot hold
EnDash == "U+2013"

RangeText == <<"F", "r", "i", ",", " ", "M", "a", "r", " ", "1", "5", " ", EnDash, " ", "S", "u", "n", ",", " ", "M", "a", "r", " ", "1", "7">>

\* "Fri, <month-abbrev> <day> U+2013 Sun, <month-abbrev> <day>"
RangeOf(month, day, month2, day2) ==
    <<"F", "r", "i", ",", " ">> \o month \o <<" ">> \o day \o <<" ", EnDash, " ">>
        \o <<"S", "u", "n", ",", " ">> \o month2 \o <<" ">> \o day2

RangeInputs ==
    {RangeOf(MONTHS[m], IntText(d), MONTHS[m2], IntText(d2)) :
        m \in {2, 3, 12}, d \in {15, 29}, m2 \in {3, 4}, d2 \in {2, 17}}

OtherInputs ==
    { None,
      <<>>,
      <<" ">>,
      <<"T", "o", "d", "a", "y", " ", "a", "t", " ", "8", " ", "P", "M">>,
      <<"T", "o", "m", "o", "r", "r", "o", "w", " ", "a", "t", " ", "1", "0", " ", "A", "M">>,
      <<"H", "a", "p", "p", "e", "n", "i", "n", "g", " ", "n", "o", "w">>,
      <<"T", "B", "A">>,
      <<"F", "r", "i", ",">>,
      <<"M", "a", "r", " ", "1", "5">>,
      <<"F", "r", "i", ",", " ", "M", "a", "r", " ", "x", " ", "a", "t", " ", "7", " ", "P", "M">>,
      <<"F", "r", "i", ",", " ", "M", "a", "r", " ", "0", " ", "a", "t", " ", "7", " ", "P", "M">>,
      <<"F", "r", "i", ",", " ", "M", "a", "r", " ", "-", "5", " ", "a", "t", " ", "7", " ", "P", "M">>,
      <<"F", "r", "i", ",", " ", "F", "o", "o", " ", "1", "5", " ", "a", "t", " ", "7", " ", "P", "M">>,
      <<"F", "r", "i", ",", " ", "S", "e", "p", "t", "e", "m", "b", "e", "r", " ", "5", " ", "a", "t", " ", "7", " ", "P", "M">>,
      RangeText }

DateInputs == AbsInputs \cup OtherInputs \cup RangeInputs

\* the reference dates: in and out of a leap year, at month and year ends
RefDates ==
    { [year |-> 2024, month |-> 6,  day |-> 1],
      [year |-> 2024, month |-> 2,  day |-> 29],
      [year |-> 2024, month |-> 2,  day |-> 1],
      [year |-> 2025, month |-> 3,  day |-> 15],
      [year |-> 2023, month |-> 12, day |-> 31],
      [year |-> 2024, month |-> 12, day |-> 31] }

DateIdle ==
    /\ d_input = None
    /\ d_today = [year |-> 2024, month |-> 6, day |-> 1]
    /\ d_pc = "idle"
    /\ d_result = Ok(<<>>)

DateInit ==
    /\ d_input \in DateInputs
    /\ d_today \in RefDates
    /\ d_pc = "start"
    /\ d_result = Ok(<<>>)

\* date = self._convert_date(raw_date)
ConvertDate ==
    /\ d_pc = "start"
    /\ d_result' = _convert_date(d_input, d_today)
    /\ d_pc' = "converted"
    /\ UNCHANGED <<d_input, d_today>>
    /\ UNCHANGED notDate

(***************************************************************************)
(* Dicts                                                                   *)
(***************************************************************************)
HasKey(d, k) == \E i \in 1..Len(d) : d[i].key = k

KeyIndex(d, k) == CHOOSE i \in 1..Len(d) : d[i].key = k

\* d[k] = v : overwrite in place, or insert at the end
DictSet(d, k, v) ==
    IF HasKey(d, k)
    THEN [d EXCEPT ![KeyIndex(d, k)].value = v]
    ELSE Append(d, [key |-> k, value |-> v])

DictGet(d, k) == d[KeyIndex(d, k)].value

Keys(d) == {d[i].key : i \in 1..Len(d)}

(***************************************************************************)
(* _save_events                                                            *)
(***************************************************************************)
\* datetime.max, to the second
DatetimeMax == [year |-> 9999, month |-> 12, day |-> 31, second |-> 86399]

AllDigits(s) == \A i \in 1..Len(s) : IsDigit(s[i])

\* datetime.strptime(date, "%d/%m/%Y"): a day of one or two digits (or a space
\* and one digit), a month of one or two digits, a year of four digits, and
\* the date must exist; ValueError otherwise. The time of day is midnight.
Strptime(date) ==
    LET parts == Split(date, <<"/">>) IN
    IF Len(parts) # 3 THEN Raise
    ELSE LET dd == IF Len(parts[1]) = 2 /\ parts[1][1] = " " THEN Tail(parts[1]) ELSE parts[1]
             mm == parts[2]
             yy == parts[3]
         IN IF /\ Len(parts[1]) \in {1, 2} /\ AllDigits(dd)
               /\ Len(mm) \in {1, 2} /\ AllDigits(mm)
               /\ Len(yy) = 4 /\ AllDigits(yy)
               /\ DigitsValue(dd, 0) \in 1..31
               /\ DigitsValue(mm, 0) \in 1..12
               /\ ValidDate(DigitsValue(yy, 0), DigitsValue(mm, 0), DigitsValue(dd, 0))
            THEN Ok([year |-> DigitsValue(yy, 0), month |-> DigitsValue(mm, 0),
                     day |-> DigitsValue(dd, 0), second |-> 0])
            ELSE Raise

\* the key of events_with_dates for a date string
ToSortKey(date) == IF date # DateTBD THEN Strptime(date) ELSE Ok(DatetimeMax)

\* events_with_dates = {...}: a dict comprehension, a repeated key overwrites
RECURSIVE WithDates(_, _, _)
WithDates(events, i, acc) ==
    IF i > Len(events) THEN Ok(acc)
    ELSE LET k == ToSortKey(events[i].key) IN
         IF k.raised THEN Raise
         ELSE WithDates(events, i + 1, DictSet(acc, k.value, events[i].value))

\* mutant: the keys are ordered as their DD/MM/YYYY text is, day first
DatetimeLessDayFirst(a, b) ==
    \/ a.second < b.second
    \/ a.second = b.second /\ a.day < b.day
    \/ a.second = b.second /\ a.day = b.day /\ a.month < b.month
    \/ a.second = b.second /\ a.day = b.day /\ a.month = b.month /\ a.year < b.year

\* a < b on datetimes
DatetimeLess(a, b) ==
    \/ a.year < b.year
    \/ a.year = b.year /\ a.month < b.month
    \/ a.year = b.year /\ a.month = b.month /\ a.day < b.day
    \/ a.year = b.year /\ a.month = b.month /\ a.day = b.day /\ a.second < b.second

RemoveAt(seq, i) == SubSeq(seq, 1, i - 1) \o SubSeq(seq, i + 1, Len(seq))

\* sorted(events_with_dates.items()): ascending by key, the keys being distinct
RECURSIVE Sorted(_)
Sorted(items) ==
    IF items = <<>> THEN <<>>
    ELSE LET i == CHOOSE i \in 1..Len(items) :
                    \A j \in 1..Len(items) : ~DatetimeLess(items[j].key, items[i].key)
         IN <<items[i]>> \o Sorted(RemoveAt(items, i))

\* the key of sorted_events_str for a datetime
ToDateKey(key) == IF key # DatetimeMax THEN Strftime(key) ELSE DateTBD

\* sorted_events_str = {...}
RECURSIVE BackToStr(_, _, _)
BackToStr(items, i, acc) ==
    IF i > Len(items) THEN acc
    ELSE BackToStr(items, i + 1, DictSet(acc, ToDateKey(items[i].key), items[i].value))

\* the document _save_events dumps, or the exception it raises before opening the file
SortedEventsStr(events) ==
    LET events_with_dates == WithDates(events, 1, <<>>) IN
    IF events_with_dates.raised THEN Raise
    ELSE Ok(BackToStr(Sorted(events_with_dates.value), 1, <<>>))

(***************************************************************************)
(* Inputs of _save_events                                                  *)
(***************************************************************************)
\* date keys as _convert_date returns them; their text order is not their date order
SaveKeys ==
    { Strftime([year |-> 2025, month |-> 3, day |-> 15]),
      Strftime([year |-> 2025, month |-> 4, day |-> 1]),
      Strftime([year |-> 2024, month |-> 3, day |-> 20]),
      Strftime([year |-> 2026, month |-> 1, day |-> 2]),
      DateTBD }

\* the bucket stored under a key: one record, told apart by its title
SaveBucket(key) ==
    <<[event_title |-> key, event_link |-> <<"b">>, event_place |-> "p"]>>

\* the datasets: every choice and insertion order of keys
SaveDatasets ==
    UNION { { [i \in 1..n |-> [key |-> f[i], value |-> SaveBucket(f[i])]] :
                f \in {g \in [1..n -> SaveKeys] :
                          \A i, j \in 1..n : i # j => g[i] # g[j]} } :
            n \in 0..Cardinality(SaveKeys) }

\* the document of an earlier run
PriorStore == <<[key |-> DateTBD, value |-> SaveBucket(DateTBD)]>>

SaveIdle ==
    /\ s_events = <<>>
    /\ s_pc = "idle"
    /\ s_store = PriorStore
    /\ s_closed = TRUE

SaveInit ==
    /\ s_events \in SaveDatasets
    /\ s_pc = "start"
    /\ s_store = PriorStore
    /\ s_closed = TRUE

\* the document json.dump is to write: sorted_events_str
SaveDoc == SortedEventsStr(s_events)

\* lines 602-614 build sorted_events_str (a strptime error leaves the file
\* alone); open("events_data.json", "w") then truncates the file
SaveOpen ==
    /\ s_pc = "start"
    /\ IF SaveDoc.raised
       THEN s_pc' = "raised" /\ UNCHANGED <<s_store, s_closed>>
       ELSE s_pc' = "writing" /\ s_store' = <<>> /\ s_closed' = FALSE
    /\ UNCHANGED s_events
    /\ UNCHANGED notSave

\* json.dump writes the next date key and its bucket to the file
SaveWrite ==
    /\ s_pc = "writing"
    /\ Len(s_store) < Len(SaveDoc.value)
    /\ s_store' = Append(s_store, SaveDoc.value[Len(s_store) + 1])
    /\ UNCHANGED <<s_events, s_pc, s_closed>>
    /\ UNCHANGED notSave

\* a write or the serialization of a value raises: the with block closes the
\* file with what was written so far and the exception leaves _save_events
SaveWriteFails ==
    /\ s_pc = "writing"
    /\ s_pc' = "raised"
    /\ UNCHANGED <<s_events, s_store, s_closed>>
    /\ UNCHANGED notSave

\* json.dump writes the closing brace and the with block closes the file
SaveClose ==
    /\ s_pc = "writing"
    /\ Len(s_store) = Len(SaveDoc.value)
    /\ s_closed' = TRUE
    /\ s_pc' = "saved"
    /\ UNCHANGED <<s_events, s_store>>
    /\ UNCHANGED notSave

\* self._save_events(events)
SaveEvents ==
    \/ SaveOpen
    \/ SaveWrite
    \/ SaveWriteFails
    \/ SaveClose

(***************************************************************************)
(* _merge_results                                                          *)
(***************************************************************************)
\* f"{event['event_title']}|{date}|{event['event_link']}"
EventId(event, date) ==
    event.event_title \o <<"|">> \o date \o <<"|">> \o event.event_link

\* mutant: the seen_events test is dropped, every record is appended
MergeEventNoDedup(st, date, event) ==
    [merged |-> DictSet(st.merged, date, Append(DictGet(st.merged, date), event)),
     seen   |-> st.seen \cup {EventId(event, date)}]

\* one iteration of "for event in events"
MergeEvent(st, date, event) ==
    LET event_id == EventId(event, date) IN
    IF event_id \notin st.seen
    THEN [merged |-> DictSet(st.merged, date, Append(DictGet(st.merged, date), event)),
          seen   |-> st.seen \cup {event_id}]
    ELSE st

RECURSIVE MergeEvents(_, _, _, _)
MergeEvents(st, date, events, i) ==
    IF i > Len(events) THEN st
    ELSE MergeEvents(MergeEvent(st, date, events[i]), date, events, i + 1)

\* one iteration of "for date, events in result.items()"
MergeBucket(st, date, events) ==
    LET st0 == IF ~HasKey(st.merged, date)
               THEN [st EXCEPT !.merged = DictSet(@, date, <<>>)]
               ELSE st
    IN MergeEvents(st0, date, events, 1)

RECURSIVE MergeBuckets(_, _, _)
MergeBuckets(st, result, i) ==
    IF i > Len(result) THEN st
    ELSE MergeBuckets(MergeBucket(st, result[i].key, result[i].value), result, i + 1)

\* mutant: seen_events is tracked per page instead of per run
MergeResultFreshSeen(st, result) ==
    MergeBuckets([st EXCEPT !.seen = {}], result, 1)

\* one iteration of "for result in results"
MergeResult(st, result) == MergeBuckets(st, result, 1)

RECURSIVE MergeLoop(_, _, _)
MergeLoop(st, results, i) ==
    IF i > Len(results) THEN st
    ELSE MergeLoop(MergeResult(st, results[i]), results, i + 1)

\* mutant: the empty buckets are left in place
DropEmptyKeepAll(merged) == merged

\* merged = {date: events for date, events in merged.items() if events}
DropEmpty(merged) == SelectSeq(merged, LAMBDA e : e.value # <<>>)

_merge_results(results) ==
    DropEmpty(MergeLoop([merged |-> <<>>, seen |-> {}], results, 1).merged)

(***************************************************************************)
(* Inputs of _merge_results                                                *)
(***************************************************************************)
MaxPages == 2
MaxRecords == 2

Date1 == <<"0", "1", "/", "0", "1", "/", "2", "0", "2", "5">>

MergeDates == {Date1, DateTBD}

\* two records that differ in place only, and two whose title or link holds a '|'
MergeEventsIn ==
    { [event_title |-> <<"a">>, event_link |-> <<"b">>, event_place |-> "p"],
      [event_title |-> <<"a">>, event_link |-> <<"b">>, event_place |-> "q"],
      [event_title |-> <<"a">>, event_link |-> Date1 \o <<"|", "b">>, event_place |-> "p"],
      [event_title |-> <<"a", "|">> \o DateTBD, event_link |-> <<"b">>, event_place |-> "p"] }

RECURSIVE CountRecords(_, _)
CountRecords(result, i) ==
    IF i > Len(result) THEN 0
    ELSE Len(result[i].value) + CountRecords(result, i + 1)

RECURSIVE TotalRecords(_, _)
TotalRecords(results, i) ==
    IF i > Len(results) THEN 0
    ELSE CountRecords(results[i], 1) + TotalRecords(results, i + 1)

MergeIdle ==
    /\ m_results = <<>>
    /\ m_pc = "idle"
    /\ m_merged = <<>>
    /\ m_again = <<>>

MergeInit ==
    /\ m_results = <<>>
    /\ m_pc = "collect"
    /\ m_merged = <<>>
    /\ m_again = <<>>

\* a page's result is collected: results.append(result) / batch_results.append({})
AddPageResult ==
    /\ m_pc = "collect"
    /\ Len(m_results) < MaxPages
    /\ m_results' = Append(m_results, <<>>)
    /\ UNCHANGED <<m_pc, m_merged, m_again>>
    /\ UNCHANGED notMerge

\* the page being collected gets a new date bucket: events[date] = []
AddBucket ==
    /\ m_pc = "collect"
    /\ m_results # <<>>
    /\ \E date \in MergeDates :
          LET n == Len(m_results) IN
          /\ ~HasKey(m_results[n], date)
          /\ m_results' = [m_results EXCEPT ![n] = DictSet(@, date, <<>>)]
    /\ UNCHANGED <<m_pc, m_merged, m_again>>
    /\ UNCHANGED notMerge

\* the last bucket of the page being collected gets a record: events[date].append({...})
AddEvent ==
    /\ m_pc = "collect"
    /\ m_results # <<>>
    /\ m_results[Len(m_results)] # <<>>
    /\ TotalRecords(m_results, 1) < MaxRecords
    /\ \E event \in MergeEventsIn :
          LET n == Len(m_results)
              b == Len(m_results[n])
          IN m_results' = [m_results EXCEPT ![n][b].value = Append(@, event)]
    /\ UNCHANGED <<m_pc, m_merged, m_again>>
    /\ UNCHANGED notMerge

\* events = self._merge_results(results)
Merge ==
    /\ m_pc = "collect"
    /\ m_merged' = _merge_results(m_results)
    /\ m_pc' = "merged"
    /\ UNCHANGED <<m_results, m_again>>
    /\ UNCHANGED notMerge

\* a PageResult already folded in is merged once more
MergeAppended ==
    /\ m_pc = "merged"
    /\ \E i \in 1..Len(m_results) :
          m_again' = _merge_results(Append(m_results, m_results[i]))
    /\ m_pc' = "remerged_p"
    /\ UNCHANGED <<m_results, m_merged>>
    /\ UNCHANGED notMerge

\* the merged dataset is merged again as a single PageResult
MergeMerged ==
    /\ m_pc = "merged"
    /\ m_again' = _merge_results(<<m_merged>>)
    /\ m_pc' = "remerged_m"
    /\ UNCHANGED <<m_results, m_merged>>
    /\ UNCHANGED notMerge

MergeNext ==
    \/ AddPageResult
    \/ AddBucket
    \/ AddEvent
    \/ Merge
    \/ MergeAppended
    \/ MergeMerged

(***************************************************************************)
(* _scrape_page_with_retry and _scrape_page                                *)
(***************************************************************************)
max_retries == 3

\* mutant: the same delay before every attempt
BackoffDelayFlat(attempt) == 10

\* asyncio.sleep(10 * (attempt + 1))
BackoffDelay(attempt) == 10 * (attempt + 1)

\* what _parse_content may return for a page: nothing, or dated records
ParsedPages ==
    { <<>>,
      <<[key |-> Date1,
         value |-> <<[event_title |-> <<"a">>, event_link |-> <<"b">>, event_place |-> "p"]>>]>>,
      <<[key |-> DateTBD,
         value |-> <<[event_title |-> <<"c">>, event_link |-> <<"b">>, event_place |-> "q"]>>]>> }

\* an attempt's entry in the history
Attempt(step, raised, value) == [step |-> step, raised |-> raised, value |-> value]

RetryIdle ==
    /\ r_pc = "idle"
    /\ r_attempt = 0
    /\ r_page_open = FALSE
    /\ r_left_open = FALSE
    /\ r_pending = <<>>
    /\ r_log = <<>>
    /\ r_waited = 0
    /\ r_result = <<>>

\* _scrape_page_with_retry(context, url) is called: attempt = 0
RetryInit ==
    /\ r_pc = "attempt"
    /\ r_attempt = 0
    /\ r_page_open = FALSE
    /\ r_left_open = FALSE
    /\ r_pending = <<>>
    /\ r_log = <<>>
    /\ r_waited = 0
    /\ r_result = <<>>

\* page = await context.new_page()
NewPage ==
    /\ r_pc = "attempt"
    /\ r_page_open' = TRUE
    /\ r_pc' = "goto"
    /\ UNCHANGED <<r_attempt, r_left_open, r_pending, r_log, r_waited, r_result>>
    /\ UNCHANGED notRetry

\* context.new_page() raises, outside the try of _scrape_page: the attempt raises
NewPageFails ==
    /\ r_pc = "attempt"
    /\ r_log' = Append(r_log, Attempt("new_page_error", TRUE, <<>>))
    /\ r_pc' = "failed"
    /\ UNCHANGED <<r_attempt, r_page_open, r_left_open, r_pending, r_waited, r_result>>
    /\ UNCHANGED notRetry

\* page.goto, _handle_popups and wait_for_timeout complete
Goto ==
    /\ r_pc = "goto"
    /\ r_pc' = "find"
    /\ UNCHANGED <<r_attempt, r_page_open, r_left_open, r_pending, r_log, r_waited, r_result>>
    /\ UNCHANGED notRetry

\* page.goto times out or fails: "except Exception" of _scrape_page returns {}
GotoFails ==
    /\ r_pc = "goto"
    /\ r_pending' = Attempt("goto_error", FALSE, <<>>)
    /\ r_pc' = "finally"
    /\ UNCHANGED <<r_attempt, r_page_open, r_left_open, r_log, r_waited, r_result>>
    /\ UNCHANGED notRetry

\* query_selector_all finds titles, and _scroll_page (which never raises) runs
FindTitles ==
    /\ r_pc = "find"
    /\ r_pc' = "content"
    /\ UNCHANGED <<r_attempt, r_page_open, r_left_open, r_pending, r_log, r_waited, r_result>>
    /\ UNCHANGED notRetry

\* len(event_titles) == 0: return {}
FindNoTitles ==
    /\ r_pc = "find"
    /\ r_pending' = Attempt("no_titles", FALSE, <<>>)
    /\ r_pc' = "finally"
    /\ UNCHANGED <<r_attempt, r_page_open, r_left_open, r_log, r_waited, r_result>>
    /\ UNCHANGED notRetry

\* query_selector_all or text_content raises: the inner except returns {}
FindFails ==
    /\ r_pc = "find"
    /\ r_pending' = Attempt("find_error", FALSE, <<>>)
    /\ r_pc' = "finally"
    /\ UNCHANGED <<r_attempt, r_page_open, r_left_open, r_log, r_waited, r_result>>
    /\ UNCHANGED notRetry

\* content = await page.content(); events = self._parse_content(content, url)
ParseContent ==
    /\ r_pc = "content"
    /\ \E events \in ParsedPages : r_pending' = Attempt("parsed", FALSE, events)
    /\ r_pc' = "finally"
    /\ UNCHANGED <<r_attempt, r_page_open, r_left_open, r_log, r_waited, r_result>>
    /\ UNCHANGED notRetry

\* page.content() or _parse_content raises: "except Exception" returns {}
ContentFails ==
    /\ r_pc = "content"
    /\ r_pending' = Attempt("content_error", FALSE, <<>>)
    /\ r_pc' = "finally"
    /\ UNCHANGED <<r_attempt, r_page_open, r_left_open, r_log, r_waited, r_result>>
    /\ UNCHANGED notRetry

\* finally: await page.close(); then _scrape_page returns and so does
\* _scrape_page_with_retry ("return await self._scrape_page(context, url)")
ClosePage ==
    /\ r_pc = "finally"
    /\ r_page_open' = FALSE
    /\ r_log' = Append(r_log, r_pending)
    /\ r_result' = r_pending.value
    /\ r_pc' = "done"
    /\ UNCHANGED <<r_attempt, r_left_open, r_pending, r_waited>>
    /\ UNCHANGED notRetry

\* finally: page.close() raises, and the exception replaces the return value;
\* the page is gone all the same, or it stays open in the context
ClosePageFails ==
    /\ r_pc = "finally"
    /\ r_log' = Append(r_log, Attempt("close_error", TRUE, <<>>))
    /\ r_pc' = "failed"
    /\ r_page_open' = FALSE
    /\ \E gone \in BOOLEAN : r_left_open' = (r_left_open \/ ~gone)
    /\ UNCHANGED <<r_attempt, r_pending, r_waited, r_result>>
    /\ UNCHANGED notRetry

\* the value None where a PageResult is expected: no mapping at all
NoneResult == <<[key |-> None, value |-> <<>>]>>

\* mutant: a wait follows the last attempt as well
ShouldRetryAlways(attempt) == attempt < max_retries

\* if attempt < max_retries - 1
ShouldRetry(attempt) == attempt < max_retries - 1

\* except Exception, attempt < max_retries - 1: sleep, then the for loop goes
\* on; a loop that ends without a return makes the function return None
Backoff ==
    /\ r_pc = "failed"
    /\ ShouldRetry(r_attempt)
    /\ r_waited' = r_waited + BackoffDelay(r_attempt)
    /\ r_attempt' = r_attempt + 1
    /\ IF r_attempt + 1 < max_retries
       THEN r_pc' = "attempt" /\ UNCHANGED r_result
       ELSE r_pc' = "done" /\ r_result' = NoneResult
    /\ UNCHANGED <<r_page_open, r_left_open, r_pending, r_log>>
    /\ UNCHANGED notRetry

\* except Exception, last attempt: log the error and return {}
Exhausted ==
    /\ r_pc = "failed"
    /\ ~ShouldRetry(r_attempt)
    /\ r_result' = <<>>
    /\ r_pc' = "done"
    /\ UNCHANGED <<r_attempt, r_page_open, r_left_open, r_pending, r_log, r_waited>>
    /\ UNCHANGED notRetry

RetryNext ==
    \/ NewPage
    \/ NewPageFails
    \/ Goto
    \/ GotoFails
    \/ FindTitles
    \/ FindNoTitles
    \/ FindFails
    \/ ParseContent
    \/ ContentFails
    \/ ClosePage
    \/ ClosePageFails
    \/ Backoff
    \/ Exhausted

(***************************************************************************)
(* scrape_events                                                           *)
(***************************************************************************)
MaxUrls == 4

batch_size == 3

\* asyncio.sleep(5) after a batch
batch_cooldown == 5

\* batch = urls[i:i + batch_size], with i counted from 0
Batch(urls, i) ==
    SubSeq(urls, i + 1, IF i + batch_size < Len(urls) THEN i + batch_size ELSE Len(urls))

\* mutant: the loop over the batches ends after the first batch
LoopEndedEarly(urls, i) == i > 0 \/ ~(i < Len(urls))

\* range(0, len(urls), batch_size) has no value left for i
LoopEnded(urls, i) == ~(i < Len(urls))

\* mutant: an empty result discards what the batch has collected so far
AppendResultReset(batch_results, result) ==
    IF result = <<>> THEN <<result>> ELSE Append(batch_results, result)

\* batch_results.append(result)
AppendResult(batch_results, result) == Append(batch_results, result)

\* mutant: the results of a batch are put in front of the earlier ones
ExtendResultsInFront(results, batch_results) == batch_results \o results

\* results.extend(batch_results)
ExtendResults(results, batch_results) == results \o batch_results

RunIdle ==
    /\ b_urls = <<>>
    /\ b_pc = "idle"
    /\ b_i = 0
    /\ b_k = 0
    /\ b_batch_results = <<>>
    /\ b_results = <<>>
    /\ b_events = <<>>
    /\ b_context_open = FALSE
    /\ b_browser_open = FALSE
    /\ b_outcome = "running"
    /\ b_batches = <<>>
    /\ b_trace = <<>>
    /\ b_slept = 0
    /\ b_merges = 0
    /\ b_saves = 0

\* the state at line 105: the URLs are read, the context is open, results = []
RunInit ==
    /\ \E n \in 0..MaxUrls : b_urls = [u \in 1..n |-> u]
    /\ b_pc = "batch"
    /\ b_i = 0
    /\ b_k = 0
    /\ b_batch_results = <<>>
    /\ b_results = <<>>
    /\ b_events = <<>>
    /\ b_context_open = TRUE
    /\ b_browser_open = TRUE
    /\ b_outcome = "running"
    /\ b_batches = <<>>
    /\ b_trace = <<>>
    /\ b_slept = 0
    /\ b_merges = 0
    /\ b_saves = 0

\* for i in range(0, len(urls), batch_size): batch = urls[i:i + batch_size];
\* batch_results = []
NextBatch ==
    /\ b_pc = "batch"
    /\ ~LoopEnded(b_urls, b_i)
    /\ b_batches' = Append(b_batches, Batch(b_urls, b_i))
    /\ b_batch_results' = <<>>
    /\ b_k' = 1
    /\ b_pc' = "url"
    /\ UNCHANGED <<b_urls, b_i, b_results, b_events, b_context_open, b_browser_open, b_outcome,
                   b_trace, b_slept, b_merges, b_saves>>
    /\ UNCHANGED <<saveVars, retryVars, notRun>>

\* for url in batch: await self._scrape_page_with_retry(context, url) is entered
CallUrl ==
    /\ b_pc = "url"
    /\ b_k <= Len(Batch(b_urls, b_i))
    /\ r_pc = "idle"
    /\ r_pc' = "attempt"
    /\ b_pc' = "call"
    /\ UNCHANGED <<r_attempt, r_page_open, r_left_open, r_pending, r_log, r_waited, r_result>>
    /\ UNCHANGED <<b_urls, b_i, b_k, b_batch_results, b_results, b_events,
                   b_context_open, b_browser_open, b_outcome, b_batches, b_trace, b_slept,
                   b_merges, b_saves>>
    /\ UNCHANGED <<saveVars, notRun>>

\* result = await self._scrape_page_with_retry(...) returns;
\* batch_results.append(result)
ReturnUrl ==
    /\ b_pc = "call"
    /\ r_pc = "done"
    /\ b_batch_results' = AppendResult(b_batch_results, r_result)
    /\ b_trace' = Append(b_trace, [url |-> Batch(b_urls, b_i)[b_k],
                                   raised |-> r_log[Len(r_log)].raised,
                                   value |-> r_log[Len(r_log)].value])
    /\ b_k' = b_k + 1
    /\ b_pc' = "url"
    /\ r_pc' = "idle"
    /\ r_attempt' = 0
    /\ r_page_open' = FALSE
    /\ r_pending' = <<>>
    /\ r_log' = <<>>
    /\ UNCHANGED r_left_open
    /\ r_waited' = 0
    /\ r_result' = <<>>
    /\ UNCHANGED <<b_urls, b_i, b_results, b_events, b_context_open, b_browser_open, b_outcome,
                   b_batches, b_slept, b_merges, b_saves>>
    /\ UNCHANGED <<saveVars, notRun>>

\* the batch is through: results.extend(batch_results)
EndBatch ==
    /\ b_pc = "url"
    /\ b_k > Len(Batch(b_urls, b_i))
    /\ b_results' = ExtendResults(b_results, b_batch_results)
    /\ b_pc' = "cooldown"
    /\ UNCHANGED <<b_urls, b_i, b_k, b_batch_results, b_events, b_context_open, b_browser_open,
                   b_outcome, b_batches, b_trace, b_slept, b_merges, b_saves>>
    /\ UNCHANGED <<saveVars, retryVars, notRun>>

\* await asyncio.sleep(5), then the next value of i
Cooldown ==
    /\ b_pc = "cooldown"
    /\ b_slept' = b_slept + batch_cooldown
    /\ b_i' = b_i + batch_size
    /\ b_pc' = "batch"
    /\ UNCHANGED <<b_urls, b_k, b_batch_results, b_results, b_events,
                   b_context_open, b_browser_open, b_outcome, b_batches, b_trace, b_merges, b_saves>>
    /\ UNCHANGED <<saveVars, retryVars, notRun>>

\* the task is cancelled while it sleeps between two batches: CancelledError
\* is no Exception, only the finally block runs
CooldownCancelled ==
    /\ b_pc = "cooldown"
    /\ b_outcome' = "cancelled"
    /\ b_pc' = "finally"
    /\ UNCHANGED <<b_urls, b_i, b_k, b_batch_results, b_results, b_events,
                   b_context_open, b_browser_open, b_batches, b_trace, b_slept, b_merges, b_saves>>
    /\ UNCHANGED <<saveVars, retryVars, notRun>>

\* the task is cancelled while it sleeps between two attempts: CancelledError
\* passes both "except Exception" clauses, only the finally block runs
BackoffCancelled ==
    /\ b_pc = "call"
    /\ r_pc = "failed"
    /\ ShouldRetry(r_attempt)
    /\ r_pc' = "cancelled"
    /\ b_outcome' = "cancelled"
    /\ b_pc' = "finally"
    /\ UNCHANGED <<r_attempt, r_page_open, r_left_open, r_pending, r_log, r_waited, r_result>>
    /\ UNCHANGED <<b_urls, b_i, b_k, b_batch_results, b_results, b_events,
                   b_context_open, b_browser_open, b_batches, b_trace, b_slept, b_merges, b_saves>>
    /\ UNCHANGED <<saveVars, notRun>>

\* after the loop: events = self._merge_results(results)
RunMerge ==
    /\ b_pc = "batch"
    /\ LoopEnded(b_urls, b_i)
    /\ b_events' = _merge_results(b_results)
    /\ b_merges' = b_merges + 1
    /\ b_pc' = "save"
    /\ UNCHANGED <<b_urls, b_i, b_k, b_batch_results, b_results, b_context_open, b_browser_open,
                   b_outcome, b_batches, b_trace, b_slept, b_saves>>
    /\ UNCHANGED <<saveVars, retryVars, notRun>>

\* self._save_events(events) is entered
RunSave ==
    /\ b_pc = "save"
    /\ s_pc = "idle"
    /\ s_events' = b_events
    /\ s_pc' = "start"
    /\ b_saves' = b_saves + 1
    /\ b_pc' = "saving"
    /\ UNCHANGED <<s_store, s_closed>>
    /\ UNCHANGED <<b_urls, b_i, b_k, b_batch_results, b_results, b_events,
                   b_context_open, b_browser_open, b_outcome, b_batches, b_trace, b_slept, b_merges>>
    /\ UNCHANGED <<retryVars, notRun>>

\* _save_events returns, or its exception leaves the try block
RunSaved ==
    /\ b_pc = "saving"
    /\ s_pc \in {"saved", "raised"}
    /\ b_outcome' = IF s_pc = "saved" THEN "completed" ELSE "failed"
    /\ b_pc' = "finally"
    /\ UNCHANGED <<b_urls, b_i, b_k, b_batch_results, b_results, b_events,
                   b_context_open, b_browser_open, b_batches, b_trace, b_slept, b_merges, b_saves>>
    /\ UNCHANGED <<saveVars, retryVars, notRun>>

\* mutant: the run ends without the finally block
RunCloseSkipped ==
    /\ b_pc = "finally"
    /\ b_pc' = "ended"
    /\ UNCHANGED <<b_urls, b_i, b_k, b_batch_results, b_results, b_events,
                   b_context_open, b_browser_open, b_outcome, b_batches, b_trace,
                   b_slept, b_merges, b_saves>>
    /\ UNCHANGED <<saveVars, retryVars, notRun>>

\* finally: await context.close(), which closes the pages of the context;
\* await browser.close()
RunClose ==
    /\ b_pc = "finally"
    /\ b_context_open' = FALSE
    /\ b_browser_open' = FALSE
    /\ r_left_open' = FALSE
    /\ b_pc' = "ended"
    /\ UNCHANGED <<b_urls, b_i, b_k, b_batch_results, b_results, b_events,
                   b_outcome, b_batches, b_trace, b_slept, b_merges, b_saves>>
    /\ UNCHANGED <<r_pc, r_attempt, r_page_open, r_pending, r_log, r_waited, r_result>>
    /\ UNCHANGED <<saveVars, notRun>>

RunNext ==
    \/ NextBatch
    \/ CallUrl
    \/ ReturnUrl
    \/ EndBatch
    \/ Cooldown
    \/ CooldownCancelled
    \/ BackoffCancelled
    \/ RunMerge
    \/ RunSave
    \/ RunSaved
    \/ RunClose

(***************************************************************************)
(* _scroll_page                                                            *)
(***************************************************************************)
MaxCount == 2

\* for scroll in range(10)
max_scrolls == 10

max_no_new_events == 3

ScrollIdle ==
    /\ sc_pc = "idle"
    /\ sc_scroll = 0
    /\ last_event_count = 0
    /\ no_new_events_count = 0
    /\ sc_before = 0
    /\ sc_counts = <<>>
    /\ sc_error = FALSE

\* _scroll_page is called by _scrape_page, on a page with at least one title
ScrollInit ==
    /\ sc_pc = "scroll"
    /\ sc_scroll = 0
    /\ last_event_count = 0
    /\ no_new_events_count = 0
    /\ sc_before \in 1..MaxCount
    /\ sc_counts = <<>>
    /\ sc_error = FALSE

\* one pass of the loop: scroll, wait, count the titles, compare
Scroll ==
    /\ sc_pc = "scroll"
    /\ sc_scroll < max_scrolls
    /\ \E current_count \in 0..MaxCount :
          /\ sc_counts' = Append(sc_counts, current_count)
          /\ sc_scroll' = sc_scroll + 1
          /\ IF current_count = last_event_count
             THEN /\ no_new_events_count' = no_new_events_count + 1
                  /\ IF no_new_events_count + 1 >= max_no_new_events
                     THEN sc_pc' = "done" /\ UNCHANGED last_event_count
                     ELSE sc_pc' = "scroll" /\ last_event_count' = current_count
             ELSE /\ no_new_events_count' = 0
                  /\ last_event_count' = current_count
                  /\ sc_pc' = "scroll"
    /\ UNCHANGED <<sc_before, sc_error>>
    /\ UNCHANGED notScroll

\* range(10) is exhausted
ScrollLoopEnds ==
    /\ sc_pc = "scroll"
    /\ ~(sc_scroll < max_scrolls)
    /\ sc_pc' = "done"
    /\ UNCHANGED <<sc_scroll, last_event_count, no_new_events_count, sc_before,
                   sc_counts, sc_error>>
    /\ UNCHANGED notScroll

\* page.evaluate, wait_for_timeout or query_selector_all raises:
\* "except Exception" logs it and _scroll_page returns
ScrollFails ==
    /\ sc_pc = "scroll"
    /\ sc_scroll < max_scrolls
    /\ sc_error' = TRUE
    /\ sc_pc' = "done"
    /\ UNCHANGED <<sc_scroll, last_event_count, no_new_events_count, sc_before,
                   sc_counts>>
    /\ UNCHANGED notScroll

ScrollNext ==
    \/ Scroll
    \/ ScrollLoopEnds
    \/ ScrollFails

(***************************************************************************)
(* LLMEventParser.parse_with_llm (src/llm_extractor.py)                    *)
(***************************************************************************)
MaxHtml == 1600

\* html_content[:1500]
html_limit == 1500

\* prompt_template up to {html_content}, with "{{" and "}}" as format leaves them
PromptPrefix ==
    <<"E", "x", "t", "r", "a", "c", "t", " ", "t", "h", "e", "s",
      "e", " ", "f", "i", "e", "l", "d", "s", " ", "f", "r", "o",
      "m", " ", "H", "T", "M", "L", " ", "a", "s", " ", "J", "S",
      "O", "N", ":", "\n", "{", "\n", " ", " ", "\"", "d", "a", "t",
      "e", "_", "t", "i", "m", "e", "\"", ":", " ", "\"", "e", "x",
      "t", "r", "a", "c", "t", "e", "d", " ", "d", "a", "t", "e",
      "/", "t", "i", "m", "e", "\"", ",", "\n", " ", " ", "\"", "t",
      "i", "t", "l", "e", "\"", ":", " ", "\"", "e", "v", "e", "n",
      "t", " ", "t", "i", "t", "l", "e", "\"", ",", "\n", " ", " ",
      "\"", "p", "l", "a", "c", "e", "\"", ":", " ", "\"", "e", "v",
      "e", "n", "t", " ", "l", "o", "c", "a", "t", "i", "o", "n",
      "\"", ",", "\n", " ", " ", "\"", "u", "r", "l", "\"", ":", " ",
      "\"", "e", "v", "e", "n", "t", " ", "U", "R", "L", "\"", "\n",
      "}", "\n", "\n", "H", "T", "M", "L", " ", "c", "o", "n", "t",
      "e", "n", "t", ":", " ">>

\* prompt_template after {html_content}
PromptSuffix ==
    <<"\n", "\n", "R", "e", "t", "u", "r", "n", " ", "O", "N", "L",
      "Y", " ", "v", "a", "l", "i", "d", " ", "J", "S", "O", "N",
      " ", "w", "i", "t", "h", "o", "u", "t", " ", "a", "n", "y",
      " ", "f", "o", "r", "m", "a", "t", "t", "i", "n", "g", " ",
      "o", "r", " ", "c", "o", "m", "m", "e", "n", "t", "s", ":">>

\* mutant: the whole page goes into the prompt
TruncateHtmlNot(html_content) == html_content

\* html_content[:1500]
TruncateHtml(html_content) == Take(html_content, html_limit)

\* self.prompt_template.format(html_content=html_content[:1500]);
\* None cannot be sliced
FormatPrompt(html_content) ==
    IF html_content = None THEN Raise
    ELSE Ok(PromptPrefix \o TruncateHtml(html_content) \o PromptSuffix)

\* a JSON string without escapes: "..." with no quote inside
JsonString(t) ==
    IF Len(t) >= 2 /\ t[1] = "\"" /\ t[Len(t)] = "\""
         /\ \A i \in 2..(Len(t) - 1) : t[i] # "\""
    THEN Ok(SubSeq(t, 2, Len(t) - 1))
    ELSE Raise

\* the members "key": "value" of a flat JSON object, as dict entries
RECURSIVE JsonMembers(_, _, _)
JsonMembers(pieces, i, acc) ==
    IF i > Len(pieces) THEN Ok(acc)
    ELSE LET kv == Split(pieces[i], <<":">>) IN
         IF Len(kv) # 2 THEN Raise
         ELSE LET k == JsonString(Strip(kv[1]))
                  v == JsonString(Strip(kv[2]))
              IN IF k.raised \/ v.raised THEN Raise
                 ELSE JsonMembers(pieces, i + 1, DictSet(acc, k.value, v.value))

\* json.loads, for the reply texts of this model: an object of plain string
\* members is parsed, every other text here is no JSON and raises
JsonLoads(text) ==
    LET t == Strip(text) IN
    IF Len(t) >= 2 /\ t[1] = "{" /\ t[Len(t)] = "}"
    THEN LET inner == Strip(SubSeq(t, 2, Len(t) - 1)) IN
         IF inner = <<>> THEN Ok(<<>>)
         ELSE JsonMembers(Split(inner, <<",">>), 1, <<>>)
    ELSE Raise

\* the body of the try block, after the prompt is built: post the request,
\* read the body as JSON, take its "response" text and parse it
ReadReply(reply) ==
    IF reply.kind \in {"post_error", "body_error"} THEN Raise
    ELSE IF ~reply.has_response THEN Raise
    ELSE IF reply.response = None THEN Raise
    ELSE JsonLoads(Strip(reply.response))

\* parse_with_llm: any exception is logged and {} returned
parse_with_llm(html_content, reply) ==
    LET prompt == FormatPrompt(html_content) IN
    IF prompt.raised THEN Ok(<<>>)
    ELSE LET r == ReadReply(reply) IN
         IF r.raised THEN Ok(<<>>) ELSE r

\* page texts of n characters
HtmlOf(n, pattern) == [i \in 1..n |-> pattern[((i - 1) % Len(pattern)) + 1]]

HtmlInputs ==
    {None} \cup
    {HtmlOf(n, pattern) : n \in {0, 1, html_limit - 1, html_limit, html_limit + 1, MaxHtml},
                          pattern \in {<<"<", "p", ">">>, <<"{", "}">>, <<"a">>}}

\* the "response" texts an LLM may give
ReplyTexts ==
    { <<"{", "\"", "t", "i", "t", "l", "e", "\"", ":", " ", "\"", "x", "\"", "}">>,
      <<" ", "{", "\"", "t", "i", "t", "l", "e", "\"", ":", " ", "\"", "x", "\"", ",", " ", "\"", "p", "l", "a", "c", "e", "\"", ":", " ", "\"", "y", "\"", "}", "\n">>,
      <<"{", "}">>,
      <<"H", "e", "r", "e", " ", "i", "s", " ", "t", "h", "e", " ", "J", "S", "O", "N">>,
      <<"{", "\"", "t", "i", "t", "l", "e", "\"", ":", " ", "\"", "x", "\"">>,
      <<"{", "\"", "t", "i", "t", "l", "e", "\"", " ", "\"", "x", "\"", "}">>,
      <<>> }

\* what the request brings: an error of the connection, a body that is no
\* JSON, or a JSON body with or without a "response" member
Replies ==
    { [kind |-> "post_error", has_response |-> FALSE, response |-> None],
      [kind |-> "body_error", has_response |-> FALSE, response |-> None],
      [kind |-> "body", has_response |-> FALSE, response |-> None],
      [kind |-> "body", has_response |-> TRUE, response |-> None] }
    \cup {[kind |-> "body", has_response |-> TRUE, response |-> t] : t \in ReplyTexts}

LlmIdle ==
    /\ l_html = <<>>
    /\ l_reply = [kind |-> "post_error", has_response |-> FALSE, response |-> None]
    /\ l_pc = "idle"
    /\ l_prompt = <<>>
    /\ l_result = Ok(<<>>)

LlmInit ==
    /\ l_html \in HtmlInputs
    /\ l_reply \in Replies
    /\ l_pc = "start"
    /\ l_prompt = <<>>
    /\ l_result = Ok(<<>>)

\* await parser.parse_with_llm(html_content)
ParseWithLlm ==
    /\ l_pc = "start"
    /\ l_prompt' = (IF FormatPrompt(l_html).raised THEN <<>> ELSE FormatPrompt(l_html).value)
    /\ l_result' = parse_with_llm(l_html, l_reply)
    /\ l_pc' = "done"
    /\ UNCHANGED <<l_html, l_reply>>
    /\ UNCHANGED notLlm

(***************************************************************************)
(* _extract_event_data and _clean_url                                      *)
(*                                                                         *)
(* A container is described by what the searches of _extract_event_data    *)
(* find from it: whether the walk up the ancestors meets the root wrapper, *)
(* and, below that wrapper, the title span, the href of the events link,   *)
(* the text of the date span, the children of the first div of the place   *)
(* div, and the text of the place link; None stands for "not found".       *)
(***************************************************************************)
NoLocation == <<"N", "o", " ", "l", "o", "c", "a", "t", "i", "o", "n">>

\* url.split('?')[0] when there is a '?'; the site is put in front of a
\* url that does not name it
_clean_url(url) ==
    LET cut == IF Contains(url, <<"?">>) THEN Split(url, <<"?">>)[1] ELSE url
    IN IF ~Contains(cut, <<"f", "a", "c", "e", "b", "o", "o", "k", ".", "c", "o", "m">>)
       THEN <<"h", "t", "t", "p", "s", ":", "/", "/", "f", "a", "c", "e", "b", "o", "o", "k", ".", "c", "o", "m">> \o cut
       ELSE cut

\* the loop over first_div.contents: strings are added up to the first span
RECURSIVE PlaceText(_, _, _)
PlaceText(contents, i, place_text) ==
    IF i > Len(contents) THEN place_text
    ELSE IF contents[i].is_str THEN PlaceText(contents, i + 1, place_text \o contents[i].text)
    ELSE IF contents[i].name = "span" THEN place_text
    ELSE PlaceText(contents, i + 1, place_text)

\* "not x" for a text or None
Falsy(x) == x = None \/ x = <<>>

\* the place: primary structure, then the place link, then "No location"
FindPlace(container) ==
    LET primary == IF container.place_div.found /\ container.place_div.first_div
                   THEN Strip(PlaceText(container.place_div.contents, 1, <<>>))
                   ELSE None
        place == IF Falsy(primary) /\ container.place_link # None
                 THEN Strip(container.place_link)
                 ELSE primary
    IN IF Falsy(place) THEN NoLocation ELSE place

\* mutant: the date is stored as it was found
DateAsFound(date) == date

\* date or "Date TBD"
DateOrTBD(date) == IF Falsy(date) THEN DateTBD ELSE date

\* raw_date = date_span.get_text(strip=True); self._convert_date(raw_date)
ConvertRawDate(date_span, today) ==
    LET converted == {_convert_date(raw_date, today) : raw_date \in {Strip(date_span)}}
    IN (CHOOSE r \in converted : TRUE).value

\* the body of the try block of _extract_event_data
ExtractBody(container, today) ==
    IF container.fault THEN Raise
    ELSE IF ~container.root THEN Ok(<<>>)
    ELSE IF container.title_span = None THEN Ok(<<>>)
    ELSE IF container.href = None THEN Ok(<<>>)
    ELSE LET title == Strip(container.title_span)
             link == _clean_url(container.href)
             date == IF container.date_span # None
                     THEN ConvertRawDate(container.date_span, today)
                     ELSE None
             place == FindPlace(container)
         IN IF ~Falsy(title) /\ ~Falsy(link)
            THEN Ok(<<[key |-> "date", value |-> DateOrTBD(date)],
                      [key |-> "link", value |-> link],
                      [key |-> "title", value |-> title],
                      [key |-> "place", value |-> place]>>)
            ELSE Ok(<<>>)

\* "except Exception: return value" around an expression
OrReturn(r, value) == IF r.raised THEN Ok(value) ELSE r

\* mutant: no try block around the extraction
ExtractNoTry(container, today) == ExtractBody(container, today)

\* _extract_event_data: any exception is logged and {} returned
_extract_event_data(container, today) == OrReturn(ExtractBody(container, today), <<>>)

(***************************************************************************)
(* The ancestor walk of _extract_event_data                                *)
(*                                                                         *)
(* An element is its tag name and whether 'x6s0dn4' is among its classes.  *)
(* The chain of .parent ends with the document object, whose parent is     *)
(* None.                                                                   *)
(***************************************************************************)
MaxDepth == 12

Element(name, marked) == [name |-> name, marked |-> marked]

Document == Element("[document]", FALSE)

\* n elements below the document: plain divs, but for a marked div at
\* position root_at and an element of another kind at position other_at
ChainOf(n, root_at, other_at, other) ==
    [k \in 1..(n + 1) |->
        IF k = n + 1 THEN Document
        ELSE IF k = root_at THEN Element("div", TRUE)
        ELSE IF k = other_at THEN other
        ELSE Element("div", FALSE)]

Chains ==
    {ChainOf(n, root_at, other_at, other) :
        n \in 1..MaxDepth, root_at \in 0..MaxDepth, other_at \in 0..MaxDepth,
        other \in {Element("span", TRUE), Element("a", FALSE)}}

\* root.name != 'div' or 'x6s0dn4' not in root.get('class', [])
NotTheRoot(element) == element.name # "div" \/ ~element.marked

WalkIdle ==
    /\ w_chain = <<>>
    /\ w_root = 0
    /\ w_steps = 0
    /\ w_pc = "idle"

\* root = container
WalkInit ==
    /\ w_chain \in Chains
    /\ w_root = 1
    /\ w_steps = 0
    /\ w_pc = "walk"

\* while root and (...): root = root.parent
WalkUp ==
    /\ w_pc = "walk"
    /\ w_root <= Len(w_chain)
    /\ NotTheRoot(w_chain[w_root])
    /\ w_root' = w_root + 1
    /\ w_steps' = w_steps + 1
    /\ UNCHANGED <<w_chain, w_pc>>
    /\ UNCHANGED notWalk

\* the loop ends at a div with the class: the extraction goes on below it
WalkFindsRoot ==
    /\ w_pc = "walk"
    /\ w_root <= Len(w_chain)
    /\ ~NotTheRoot(w_chain[w_root])
    /\ w_pc' = "found"
    /\ UNCHANGED <<w_chain, w_root, w_steps>>
    /\ UNCHANGED notWalk

\* the loop ends with root = None: "if not root: return {}"
WalkFindsNone ==
    /\ w_pc = "walk"
    /\ w_root > Len(w_chain)
    /\ w_pc' = "none"
    /\ UNCHANGED <<w_chain, w_root, w_steps>>
    /\ UNCHANGED notWalk

WalkNext ==
    \/ WalkUp
    \/ WalkFindsRoot
    \/ WalkFindsNone

(***************************************************************************)
(* _clean_url, called on the href of an events link                        *)
(***************************************************************************)
UrlOrigins ==
    { <<>>, <<"h", "t", "t", "p", "s", ":", "/", "/", "f", "a", "c", "e", "b", "o", "o", "k", ".", "c", "o", "m">>, <<"h", "t", "t", "p", "s", ":", "/", "/", "w", "w", "w", ".", "f", "a", "c", "e", "b", "o", "o", "k", ".", "c", "o", "m">>, <<"h", "t", "t", "p", "s", ":", "/", "/", "m", ".", "f", "a", "c", "e", "b", "o", "o", "k", ".", "c", "o", "m">> }

UrlPaths ==
    { <<"/", "e", "v", "e", "n", "t", "s", "/", "1", "/">>, <<"/", "e", "v", "e", "n", "t", "s", "/", "2">>, <<"/", "e", "v", "e", "n", "t", "s", "/", "f", "a", "c", "e", "b", "o", "o", "k", ".", "c", "o", "m", "/">>, <<"/", "f", "a", "c", "e", "b", "o", "o", "k", ".", "c", "o", "m", "m", "u", "n", "i", "t", "y", "/", "e", "v", "e", "n", "t", "s", "/", "3", "/">>, <<"/", "e", "v", "e", "n", "t", "s", "/", "s", "/", "l", "i", "v", "e", "/", "4", "/">> }

UrlQueries ==
    { <<>>, <<"?">>, <<"?", "r", "e", "f", "=", "x">>, <<"?", "a", "=", "1", "?", "b", "=", "2">>, <<"?", "n", "e", "x", "t", "=", "/", "e", "v", "e", "n", "t", "s", "/", "9">>, <<"?", "u", "=", "f", "a", "c", "e", "b", "o", "o", "k", ".", "c", "o", "m">> }

\* the hrefs: each has "/events/" in it, as the link search asks
UrlInputs ==
    {origin \o path \o query :
        origin \in UrlOrigins, path \in UrlPaths, query \in UrlQueries}

UrlIdle ==
    /\ u_href = <<>>
    /\ u_pc = "idle"
    /\ u_link = <<>>
    /\ u_again = <<>>

UrlInit ==
    /\ u_href \in UrlInputs
    /\ u_pc = "start"
    /\ u_link = <<>>
    /\ u_again = <<>>

\* link = self._clean_url(link_element['href'])
CleanUrl ==
    /\ u_pc = "start"
    /\ u_link' = _clean_url(u_href)
    /\ u_pc' = "cleaned"
    /\ UNCHANGED <<u_href, u_again>>
    /\ UNCHANGED notUrl

\* _clean_url on a link that is already clean
CleanAgain ==
    /\ u_pc = "cleaned"
    /\ u_again' = _clean_url(u_link)
    /\ u_pc' = "again"
    /\ UNCHANGED <<u_href, u_link>>
    /\ UNCHANGED notUrl

UrlNext ==
    \/ CleanUrl
    \/ CleanAgain

(***************************************************************************)
(* _parse_content                                                          *)
(***************************************************************************)
MaxContainers == 3

\* events[event_data['date']].append({...}), the bucket made when missing
AddEventData(events, event_data) ==
    LET date == DictGet(event_data, "date")
        with_key == IF HasKey(events, date) THEN events ELSE DictSet(events, date, <<>>)
        record == [event_title |-> DictGet(event_data, "title"),
                   event_link |-> DictGet(event_data, "link"),
                   event_place |-> DictGet(event_data, "place")]
    IN DictSet(with_key, date, Append(DictGet(with_key, date), record))

\* the pieces a container is made of
Container(root, fault, title_span, href, date_span, place_div, place_link) ==
    [root |-> root, fault |-> fault, title_span |-> title_span, href |-> href,
     date_span |-> date_span, place_div |-> place_div, place_link |-> place_link]

Str(text) == [is_str |-> TRUE, name |-> "", text |-> text]
Tag(name) == [is_str |-> FALSE, name |-> name, text |-> <<>>]

PlaceDivs ==
    { [found |-> FALSE, first_div |-> FALSE, contents |-> <<>>],
      [found |-> TRUE, first_div |-> FALSE, contents |-> <<>>],
      [found |-> TRUE, first_div |-> TRUE, contents |-> <<Str(<<" ">>), Tag("span")>>],
      [found |-> TRUE, first_div |-> TRUE,
       contents |-> <<Tag("b"), Str(<<" ", "C", "l", "u", "b">>), Str(<<" ", "9", " ">>), Tag("span"), Str(<<"x">>)>>] }

TitleSpans == {None, <<" ", " ">>, <<" ", "G", "i", "g", " ">>}

Hrefs ==
    { None,
      <<"/", "e", "v", "e", "n", "t", "s", "/", "1", "/", "?", "r", "e", "f", "=", "x">>,
      <<"h", "t", "t", "p", "s", ":", "/", "/", "w", "w", "w", ".", "f", "a", "c", "e", "b", "o", "o", "k", ".", "c", "o", "m", "/", "e", "v", "e", "n", "t", "s", "/", "2", "/">>,
      <<"?", "n", "e", "x", "t", "=", "/", "e", "v", "e", "n", "t", "s", "/", "3">> }

DateSpans ==
    { None,
      <<>>,
      <<"F", "r", "i", ",", " ", "M", "a", "r", " ", "1", "5", " ", "a", "t", " ", "7", " ", "P", "M">>,
      <<"F", "r", "i", ",", " ", "F", "e", "b", " ", "2", "9", " ", "a", "t", " ", "7", " ", "P", "M">>,
      <<"T", "B", "A">> }

PlaceLinks == {None, <<" ">>, <<"H", "a", "l", "l">>}

\* every container, for the pages of one container
AllContainers ==
    {Container(root, fault, title_span, href, date_span, place_div, place_link) :
        root \in BOOLEAN, fault \in BOOLEAN, title_span \in TitleSpans,
        href \in Hrefs, date_span \in DateSpans, place_div \in PlaceDivs,
        place_link \in PlaceLinks}

\* the containers of the longer pages: four that give a record (two of them
\* on the same day, one on an earlier day, one without date), and three that
\* fail
FewContainers ==
    LET no_place == [found |-> FALSE, first_div |-> FALSE, contents |-> <<>>]
        gig == <<" ", "G", "i", "g", " ">>
        mar15 == <<"F", "r", "i", ",", " ", "M", "a", "r", " ", "1", "5", " ", "a", "t", " ", "7", " ", "P", "M">>
        jan5 == <<"M", "o", "n", ",", " ", "J", "a", "n", " ", "5", " ", "a", "t", " ", "7", " ", "P", "M">>
    IN { Container(TRUE, FALSE, gig, <<"/", "e", "v", "e", "n", "t", "s", "/", "1", "/", "?", "r", "e", "f", "=", "x">>, mar15, no_place, <<"H", "a", "l", "l">>),
         Container(TRUE, FALSE, gig, <<"h", "t", "t", "p", "s", ":", "/", "/", "w", "w", "w", ".", "f", "a", "c", "e", "b", "o", "o", "k", ".", "c", "o", "m", "/", "e", "v", "e", "n", "t", "s", "/", "2", "/">>, mar15, no_place, None),
         Container(TRUE, FALSE, gig, <<"/", "e", "v", "e", "n", "t", "s", "/", "1", "/", "?", "r", "e", "f", "=", "x">>, None, no_place, None),
         Container(TRUE, FALSE, gig, <<"/", "e", "v", "e", "n", "t", "s", "/", "4", "/">>, jan5, no_place, None),
         Container(FALSE, FALSE, gig, <<"/", "e", "v", "e", "n", "t", "s", "/", "1", "/", "?", "r", "e", "f", "=", "x">>, mar15, no_place, None),
         Container(TRUE, FALSE, None, <<"/", "e", "v", "e", "n", "t", "s", "/", "1", "/", "?", "r", "e", "f", "=", "x">>, mar15, no_place, None),
         Container(TRUE, TRUE, gig, <<"/", "e", "v", "e", "n", "t", "s", "/", "1", "/", "?", "r", "e", "f", "=", "x">>, mar15, no_place, None) }

\* the pages of n containers out of FewContainers
RECURSIVE PagesOfLen(_)
PagesOfLen(n) ==
    IF n = 0 THEN {<<>>}
    ELSE {Append(page, c) : page \in PagesOfLen(n - 1), c \in FewContainers}

Pages ==
    {<<c>> : c \in AllContainers} \cup UNION {PagesOfLen(n) : n \in 0..MaxContainers}

ParseIdle ==
    /\ p_containers = <<>>
    /\ p_today = [year |-> 2024, month |-> 6, day |-> 1]
    /\ p_idx = 0
    /\ p_events = <<>>
    /\ p_event_data = <<>>
    /\ p_pc = "idle"
    /\ p_extracted = <<>>

\* _parse_content(content, url) before its loop: events = {}
ParseInit ==
    /\ p_containers \in Pages
    /\ p_today \in {[year |-> 2024, month |-> 6, day |-> 1],
                     [year |-> 2025, month |-> 3, day |-> 15]}
    /\ p_idx = 1
    /\ p_events = <<>>
    /\ p_event_data = <<>>
    /\ p_pc = "loop"
    /\ p_extracted = <<>>

\* "for idx, title_element in enumerate(event_titles, 1)":
\* event_data = self._extract_event_data(parent); an exception of
\* _extract_event_data would leave _parse_content
ExtractContainer ==
    /\ p_pc = "loop"
    /\ p_idx <= Len(p_containers)
    /\ \E r \in {_extract_event_data(p_containers[p_idx], p_today)} :
       IF r.raised
       THEN p_pc' = "raised" /\ UNCHANGED <<p_event_data, p_extracted>>
       ELSE /\ p_event_data' = r.value
            /\ p_extracted' = Append(p_extracted, r.value)
            /\ p_pc' = "extracted"
    /\ UNCHANGED <<p_containers, p_today, p_idx, p_events>>
    /\ UNCHANGED notParse

\* if event_data: the record is put into the bucket of its date
StoreEvent ==
    /\ p_pc = "extracted"
    /\ p_events' = IF p_event_data # <<>>
                   THEN AddEventData(p_events, p_event_data)
                   ELSE p_events
    /\ p_idx' = p_idx + 1
    /\ p_pc' = "loop"
    /\ UNCHANGED <<p_containers, p_today, p_event_data, p_extracted>>
    /\ UNCHANGED notParse

\* the loop is through: return events
ParseReturn ==
    /\ p_pc = "loop"
    /\ p_idx > Len(p_containers)
    /\ p_pc' = "done"
    /\ UNCHANGED <<p_containers, p_today, p_idx, p_events, p_event_data, p_extracted>>
    /\ UNCHANGED notParse

ParseNext ==
    \/ ExtractContainer
    \/ StoreEvent
    \/ ParseReturn

(***************************************************************************)
(* From a parsed page to the file: the end of scrape_events                *)
(***************************************************************************)
\* events = self._merge_results(results), for the result of one page, and
\* self._save_events(events) is entered
PipeMerge ==
    /\ p_pc = "done"
    /\ s_pc = "idle"
    /\ s_events' = _merge_results(<<p_events>>)
    /\ s_pc' = "start"
    /\ p_pc' = "merged"
    /\ UNCHANGED <<s_store, s_closed>>
    /\ UNCHANGED <<p_containers, p_today, p_idx, p_events, p_event_data, p_extracted>>
    /\ UNCHANGED <<mergeVars, dateVars, retryVars, runVars, scrollVars, llmVars,
                   urlVars, walkVars>>

InitMerge == MergeInit /\ DateIdle /\ SaveIdle /\ RetryIdle /\ RunIdle /\ ScrollIdle /\ LlmIdle /\ ParseIdle /\ UrlIdle /\ WalkIdle
NextMerge == MergeNext
SpecMerge == InitMerge /\ [][NextMerge]_vars

InitDate == DateInit /\ MergeIdle /\ SaveIdle /\ RetryIdle /\ RunIdle /\ ScrollIdle /\ LlmIdle /\ ParseIdle /\ UrlIdle /\ WalkIdle
NextDate == ConvertDate
SpecDate == InitDate /\ [][NextDate]_vars

InitSave == SaveInit /\ MergeIdle /\ DateIdle /\ RetryIdle /\ RunIdle /\ ScrollIdle /\ LlmIdle /\ ParseIdle /\ UrlIdle /\ WalkIdle
NextSave == SaveEvents
SpecSave == InitSave /\ [][NextSave]_vars

InitRetry == RetryInit /\ MergeIdle /\ DateIdle /\ SaveIdle /\ RunIdle /\ ScrollIdle /\ LlmIdle /\ ParseIdle /\ UrlIdle /\ WalkIdle
NextRetry == RetryNext
SpecRetry == InitRetry /\ [][NextRetry]_vars

InitRun == RunInit /\ RetryIdle /\ SaveIdle /\ MergeIdle /\ DateIdle /\ ScrollIdle /\ LlmIdle /\ ParseIdle /\ UrlIdle /\ WalkIdle
NextRun == RunNext \/ RetryNext \/ SaveEvents
SpecRun == InitRun /\ [][NextRun]_vars

InitScroll == ScrollInit /\ MergeIdle /\ DateIdle /\ SaveIdle /\ RetryIdle /\ RunIdle /\ LlmIdle /\ ParseIdle /\ UrlIdle /\ WalkIdle
NextScroll == ScrollNext
SpecScroll == InitScroll /\ [][NextScroll]_vars

InitLlm == LlmInit /\ MergeIdle /\ DateIdle /\ SaveIdle /\ RetryIdle /\ RunIdle /\ ScrollIdle /\ ParseIdle /\ UrlIdle /\ WalkIdle
NextLlm == ParseWithLlm
SpecLlm == InitLlm /\ [][NextLlm]_vars

InitParse == ParseInit /\ MergeIdle /\ DateIdle /\ SaveIdle /\ RetryIdle /\ RunIdle /\ ScrollIdle /\ LlmIdle /\ UrlIdle /\ WalkIdle
NextParse == ParseNext
SpecParse == InitParse /\ [][NextParse]_vars

InitUrl == UrlInit /\ MergeIdle /\ DateIdle /\ SaveIdle /\ RetryIdle /\ RunIdle /\ ScrollIdle /\ LlmIdle /\ ParseIdle /\ WalkIdle
NextUrl == UrlNext
SpecUrl == InitUrl /\ [][NextUrl]_vars

InitWalk == WalkInit /\ MergeIdle /\ DateIdle /\ SaveIdle /\ RetryIdle /\ RunIdle /\ ScrollIdle /\ LlmIdle /\ ParseIdle /\ UrlIdle
NextWalk == WalkNext
SpecWalk == InitWalk /\ [][NextWalk]_vars

InitPipe == ParseInit /\ MergeIdle /\ DateIdle /\ SaveIdle /\ RetryIdle /\ RunIdle /\ ScrollIdle /\ LlmIdle /\ UrlIdle /\ WalkIdle
NextPipe == ParseNext \/ PipeMerge \/ SaveEvents
SpecPipe == InitPipe /\ [][NextPipe]_vars

(***************************************************************************)
(* Claims about _merge_results                                             *)
(***************************************************************************)
BucketArrivals(date, events) ==
    [i \in 1..Len(events) |-> [date |-> date, event |-> events[i]]]

RECURSIVE PageArrivals(_, _)
PageArrivals(result, i) ==
    IF i > Len(result) THEN <<>>
    ELSE BucketArrivals(result[i].key, result[i].value) \o PageArrivals(result, i + 1)

\* the records of a list of PageResults in the order the merge loop visits them
RECURSIVE Arrivals(_, _)
Arrivals(results, i) ==
    IF i > Len(results) THEN <<>>
    ELSE PageArrivals(results[i], 1) \o Arrivals(results, i + 1)

Triple(a) == <<a.event.event_title, a.date, a.event.event_link>>

\* the records of date whose (title, date, link) no earlier record has, in order
RECURSIVE FirstArrivals(_, _, _)
FirstArrivals(in, i, date) ==
    IF i > Len(in) THEN <<>>
    ELSE (IF in[i].date = date /\ \A k \in 1..(i - 1) : Triple(in[k]) # Triple(in[i])
          THEN <<in[i].event>> ELSE <<>>)
         \o FirstArrivals(in, i + 1, date)

BucketOf(d, date) == IF HasKey(d, date) THEN DictGet(d, date) ELSE <<>>

\* C1: the dataset returned by _merge_results never holds two records with the
\* same (title, date, link), and no date key twice.
MergeNoDuplicateTriples ==
    m_pc \in {"merged", "remerged_p", "remerged_m"} =>
        LET out == Arrivals(<<m_merged>>, 1) IN
        /\ \A i, j \in 1..Len(out) : i # j => Triple(out[i]) # Triple(out[j])
        /\ \A i, j \in 1..Len(m_merged) : i # j => m_merged[i].key # m_merged[j].key

\* C1 witness: two pages brought the same (title, date, link) and the merge kept one
MergeDuplicateAcrossPagesSeen ==
    /\ m_pc = "merged"
    /\ Len(m_results) = 2
    /\ \E i \in 1..Len(PageArrivals(m_results[1], 1)) :
       \E j \in 1..Len(PageArrivals(m_results[2], 1)) :
          Triple(PageArrivals(m_results[1], 1)[i]) = Triple(PageArrivals(m_results[2], 1)[j])
    /\ Len(Arrivals(<<m_merged>>, 1)) = 1

\* C2: every input record whose (title, date, link) differs from that of every
\* earlier input record appears in the output under its date.
MergeKeepsEveryNewTriple ==
    m_pc = "merged" =>
        LET in == Arrivals(m_results, 1) IN
        \A j \in 1..Len(in) :
            (\A i \in 1..(j - 1) : Triple(in[i]) # Triple(in[j]))
            => \E k \in 1..Len(BucketOf(m_merged, in[j].date)) :
                  BucketOf(m_merged, in[j].date)[k] = in[j].event

\* C3: of the input records sharing a (title, date, link) the first to arrive is
\* kept with its place, the later ones are discarded, and every output bucket
\* lists its records in order of first arrival.
MergeKeepsFirstArrival ==
    m_pc = "merged" =>
        \A date \in MergeDates :
            BucketOf(m_merged, date) = FirstArrivals(Arrivals(m_results, 1), 1, date)

\* C4: merging R followed by a PageResult of R, and merging the merged dataset
\* itself, both return the dataset that merging R returned.
MergeIdempotent ==
    m_pc \in {"remerged_p", "remerged_m"} => m_again = m_merged

\* C4 witness: a list of two non-empty pages was merged, then merged with a repeat
MergeRepeatedPageSeen ==
    /\ m_pc = "remerged_p"
    /\ Len(m_results) = 2
    /\ \A i \in 1..Len(m_results) : CountRecords(m_results[i], 1) > 0
    /\ m_again # <<>>

\* C5: no date key of the returned dataset maps to an empty list.
MergeNoEmptyBucket ==
    m_pc \in {"merged", "remerged_p", "remerged_m"} =>
        /\ \A i \in 1..Len(m_merged) : m_merged[i].value # <<>>
        /\ \A i \in 1..Len(m_again) : m_again[i].value # <<>>

\* C5 witness: an empty PageResult and a page with an empty bucket were merged
MergeEmptyBucketSeen ==
    /\ m_pc = "merged"
    /\ \E i \in 1..Len(m_results) : m_results[i] = <<>>
    /\ \E i \in 1..Len(m_results) :
          \E b \in 1..Len(m_results[i]) : m_results[i][b].value = <<>>
    /\ m_merged # <<>>

(***************************************************************************)
(* Claims about _convert_date                                              *)
(***************************************************************************)
\* month/day lies strictly before the reference date within the reference year
BeforeToday(m, d) ==
    m < d_today.month \/ (m = d_today.month /\ d < d_today.day)

DateOf(y, m, d) == [year |-> y, month |-> m, day |-> d]

\* C7 as stated: a valid month/day of the reference year that lies before the
\* reference date is returned in the next year, any other in the current year.
ConvertRollsEveryPastDay ==
    d_pc = "converted" =>
        \A wk \in Weekdays, m \in 1..12, d \in DayNumbers :
            (d_input = AbsText(wk, MONTHS[m], IntText(d)) /\ ValidDate(d_today.year, m, d))
            => d_result = Ok(Strftime(DateOf(
                   IF BeforeToday(m, d) THEN d_today.year + 1 ELSE d_today.year, m, d)))

\* C7 amended: a valid month/day of the reference year that lies before the
\* reference date is returned in the next year when it exists there and as
\* "Date TBD" when it does not (Feb 29); a month/day on or after the reference
\* date is returned in the current year.
ConvertRollsToNextYear ==
    d_pc = "converted" =>
        \A wk \in Weekdays, m \in 1..12, d \in DayNumbers :
            (d_input = AbsText(wk, MONTHS[m], IntText(d)) /\ ValidDate(d_today.year, m, d))
            => IF BeforeToday(m, d)
               THEN d_result = (IF ValidDate(d_today.year + 1, m, d)
                                THEN Ok(Strftime(DateOf(d_today.year + 1, m, d)))
                                ELSE Ok(DateTBD))
               ELSE d_result = Ok(Strftime(DateOf(d_today.year, m, d)))

\* C7 witness: "Mon, Jan 5 at 7 PM" read on 2024-06-01 gave 05/01/2025
ConvertRolledSeen ==
    /\ d_pc = "converted"
    /\ d_input = AbsText(<<"M", "o", "n">>, MONTHS[1], IntText(5))
    /\ d_today = DateOf(2024, 6, 1)
    /\ d_result = Ok(<<"0", "5", "/", "0", "1", "/", "2", "0", "2", "5">>)

\* C8: _convert_date never raises and returns either the DD/MM/YYYY text of an
\* existing calendar day or "Date TBD".
ConvertNeverRaises ==
    d_pc = "converted" =>
        /\ ~d_result.raised
        /\ \/ d_result.value = DateTBD
           \/ \E y \in {d_today.year, d_today.year + 1}, m \in 1..12, d \in 1..31 :
                 ValidDate(y, m, d) /\ d_result.value = Strftime(DateOf(y, m, d))

\* C8 witness: a day that does not exist in its month (Feb 30) gave "Date TBD"
ConvertBadDaySeen ==
    /\ d_pc = "converted"
    /\ d_input = AbsText(<<"F", "r", "i">>, MONTHS[2], IntText(30))
    /\ d_result = Ok(DateTBD)

(***************************************************************************)
(* Claims about _save_events                                               *)
(***************************************************************************)
\* the calendar reading of a DD/MM/YYYY key: <<year, month, day>>
KeyYear(k)  == DigitsValue(SubSeq(k, 7, 10), 0)
KeyMonth(k) == DigitsValue(SubSeq(k, 4, 5), 0)
KeyDay(k)   == DigitsValue(SubSeq(k, 1, 2), 0)

KeyNotAfter(a, b) ==
    \/ KeyYear(a) < KeyYear(b)
    \/ KeyYear(a) = KeyYear(b) /\ KeyMonth(a) < KeyMonth(b)
    \/ KeyYear(a) = KeyYear(b) /\ KeyMonth(a) = KeyMonth(b) /\ KeyDay(a) <= KeyDay(b)

\* C6: in the written document the DD/MM/YYYY keys are in non-decreasing
\* chronological order and "Date TBD", when present, is the last key.
SaveKeysChronological ==
    s_pc = "saved" =>
        /\ \A i, j \in 1..Len(s_store) :
              (i < j /\ s_store[i].key # DateTBD /\ s_store[j].key # DateTBD)
              => KeyNotAfter(s_store[i].key, s_store[j].key)
        /\ \A i \in 1..Len(s_store) :
              s_store[i].key = DateTBD => i = Len(s_store)

\* C6 witness: a dataset with "Date TBD" inserted first and 01/04/2025 inserted
\* before 15/03/2025 was written with 15/03/2025 first and "Date TBD" last
SaveReorderedSeen ==
    /\ s_pc = "saved"
    /\ Len(s_events) >= 3
    /\ s_events[1].key = DateTBD
    /\ s_events[2].key = <<"0", "1", "/", "0", "4", "/", "2", "0", "2", "5">>
    /\ s_events[3].key = <<"1", "5", "/", "0", "3", "/", "2", "0", "2", "5">>
    /\ s_store[Len(s_store)].key = DateTBD
    /\ \E i \in 1..(Len(s_store) - 1) :
          /\ s_store[i].key = <<"1", "5", "/", "0", "3", "/", "2", "0", "2", "5">>
          /\ s_store[i + 1].key = <<"0", "1", "/", "0", "4", "/", "2", "0", "2", "5">>

(***************************************************************************)
(* Claims about _scrape_page_with_retry                                    *)
(***************************************************************************)
\* C9: an attempt whose page.goto raised is followed by another attempt unless
\* it was the last of the max_retries attempts; only then is the result empty.
GotoFailureRetried ==
    (r_pc = "done" /\ r_log[Len(r_log)].step = "goto_error")
    => Len(r_log) = max_retries

\* the attempts that raised
Failures(log) == Cardinality({i \in 1..Len(log) : log[i].raised})

\* the time slept after k failed attempts: 10 * 1 + ... + 10 * k, none after the last
RECURSIVE WaitAfter(_)
WaitAfter(k) ==
    IF k = 0 THEN 0
    ELSE (IF k < max_retries THEN 10 * k ELSE 0) + WaitAfter(k - 1)

\* C10: at most max_retries attempts are made; the call returns the result of
\* the first attempt that does not raise; the k-th failed attempt is followed
\* by a wait of 10 * k, except the last one.
RetryBackoff ==
    /\ Len(r_log) <= max_retries
    /\ \A i \in 1..Len(r_log) : ~r_log[i].raised => i = Len(r_log)
    /\ r_pc = "done" =>
          /\ r_waited = WaitAfter(Failures(r_log))
          /\ ~r_log[Len(r_log)].raised => r_result = r_log[Len(r_log)].value
    /\ r_pc = "attempt" => r_waited = WaitAfter(Len(r_log))

\* C10 witness: two attempts raised, the third returned records, 10 + 20 was slept
RetryThirdAttemptSeen ==
    /\ r_pc = "done"
    /\ Len(r_log) = 3
    /\ r_log[1].raised /\ r_log[2].raised /\ ~r_log[3].raised
    /\ r_log[3].step = "parsed"
    /\ r_result # <<>>
    /\ r_result = r_log[3].value
    /\ r_waited = 30

\* C11: a call whose max_retries attempts all raised returns the empty
\* PageResult; every call that ends returns a mapping and ends either in
\* Success (the result of its last attempt, which did not raise) or in
\* Exhausted (every attempt raised, the result is empty), never in both.
RetryEndsInSuccessOrExhausted ==
    r_pc = "done" =>
        LET last == r_log[Len(r_log)]
            success == ~last.raised /\ r_result = last.value
            exhausted == /\ Len(r_log) = max_retries
                         /\ \A i \in 1..Len(r_log) : r_log[i].raised
                         /\ r_result = <<>>
        IN  /\ r_result # NoneResult
            /\ r_result \in ParsedPages
            /\ success \/ exhausted
            /\ ~(success /\ exhausted)
            /\ (Len(r_log) = max_retries /\ last.raised) => exhausted

\* C11 witness: three attempts raised and the call returned the empty result
RetryExhaustedSeen ==
    /\ r_pc = "done"
    /\ Len(r_log) = max_retries
    /\ \A i \in 1..Len(r_log) : r_log[i].raised
    /\ r_result = <<>>
    /\ r_waited = 30

(***************************************************************************)
(* Claims about the file written by _save_events                           *)
(***************************************************************************)
\* C15: at every point of _save_events, and after a write that failed
\* partway, events_data.json holds a complete document: the prior one or the
\* new one, never an empty or truncated one.
SaveStoreAlwaysComplete ==
    /\ s_closed
    /\ \/ s_store = PriorStore
       \/ s_pc \in {"writing", "saved", "raised"} /\ ~SaveDoc.raised
            /\ s_store = SaveDoc.value

(***************************************************************************)
(* Claims about scrape_events                                              *)
(***************************************************************************)
\* the loop over the batches has ended without being cancelled
LoopFinished ==
    \/ b_pc = "batch" /\ LoopEnded(b_urls, b_i)
    \/ b_pc \in {"save", "saving"}
    \/ b_pc \in {"finally", "ended"} /\ b_outcome # "cancelled"

\* urls cut into consecutive pieces of 3, the last one possibly shorter
RECURSIVE Chunks(_)
Chunks(urls) ==
    IF urls = <<>> THEN <<>>
    ELSE IF Len(urls) <= 3 THEN <<urls>>
    ELSE <<SubSeq(urls, 1, 3)>> \o Chunks(SubSeq(urls, 4, Len(urls)))

\* C12: after the batch loop, results holds one PageResult per URL, the i-th
\* being the one obtained for the i-th URL; the URLs were taken in
\* consecutive batches of 3, and 5 time units were slept between one batch
\* and the next.
BatchResultsInUrlOrder ==
    /\ LoopFinished =>
          /\ Len(b_results) = Len(b_urls)
          /\ Len(b_trace) = Len(b_urls)
          /\ \A i \in 1..Len(b_urls) :
                /\ b_trace[i].url = b_urls[i]
                /\ b_results[i] = b_trace[i].value
          /\ b_batches = Chunks(b_urls)
    /\ b_pc \in {"url", "call"} =>
          /\ b_batches = Chunks(SubSeq(b_urls, 1, Len(b_results) + Len(Batch(b_urls, b_i))))
          /\ b_slept = 5 * (Len(b_batches) - 1)

\* C12 witness: four URLs went through two batches, with different results
\* for the first and the last URL
BatchTwoBatchesSeen ==
    /\ LoopFinished
    /\ Len(b_urls) = 4
    /\ Len(b_batches) = 2
    /\ Len(b_results) = 4
    /\ b_results[1] # b_results[4]
    /\ b_results[4] # <<>>

\* C13: a URL whose processing failed for good (its last attempt raised) has
\* the empty PageResult; every URL before and after it, in its batch and in
\* later batches, is processed, and has the result of its own last attempt.
BatchIsolation ==
    LoopFinished =>
        /\ Len(b_results) = Len(b_urls)
        /\ Len(b_trace) = Len(b_urls)
        /\ \A i \in 1..Len(b_urls) :
              b_trace[i].raised =>
                  /\ b_results[i] = <<>>
                  /\ \A j \in 1..Len(b_urls) :
                        (j # i /\ ~b_trace[j].raised) => b_results[j] = b_trace[j].value

\* C13 witness: the second of four URLs failed for good, the first, the third
\* and the fourth (in the next batch) have their records
BatchOneUrlFailedSeen ==
    /\ LoopFinished
    /\ Len(b_urls) = 4
    /\ Len(b_results) = 4
    /\ b_trace[2].raised
    /\ b_results[2] = <<>>
    /\ ~b_trace[1].raised /\ b_results[1] # <<>>
    /\ ~b_trace[3].raised /\ b_results[3] # <<>>
    /\ ~b_trace[4].raised /\ b_results[4] # <<>>

\* C16: _merge_results runs once in a run that completes and never more, and
\* only when results holds a PageResult for every URL; _save_events runs at
\* most once and only after the merge, on the merged dataset; a run cancelled
\* between batches or between attempts has merged nothing and left
\* events_data.json as it was.
RunMergesOnceThenWrites ==
    /\ b_merges <= 1
    /\ b_saves <= 1
    /\ b_merges = 1 => /\ Len(b_results) = Len(b_urls)
                       /\ b_events = _merge_results(b_results)
    /\ b_saves = 1 => b_merges = 1 /\ s_events = b_events
    /\ b_outcome = "completed" => b_merges = 1 /\ b_saves = 1
    /\ (s_store # PriorStore \/ ~s_closed) => b_saves = 1
    /\ b_outcome = "cancelled" =>
          /\ b_merges = 0
          /\ b_saves = 0
          /\ s_store = PriorStore
          /\ s_closed

\* C16 witness: a run with records collected in its first batch was cancelled
\* during the wait between two attempts of the fourth URL
RunCancelledSeen ==
    /\ b_pc = "ended"
    /\ b_outcome = "cancelled"
    /\ r_pc = "cancelled"
    /\ Len(b_urls) = 4
    /\ Len(b_results) = 3
    /\ b_results[1] # <<>>
    /\ s_store = PriorStore

(***************************************************************************)
(* Claims about _scroll_page                                               *)
(***************************************************************************)
\* the title counts seen: before the first scroll, then after each scroll
ScrollCounts == <<sc_before>> \o sc_counts

\* scrolls k - 2, k - 1 and k each left the title count as it was
UnchangedForThree(k) ==
    /\ k >= 3
    /\ ScrollCounts[k + 1] = ScrollCounts[k]
    /\ ScrollCounts[k] = ScrollCounts[k - 1]
    /\ ScrollCounts[k - 1] = ScrollCounts[k - 2]

\* C14: a call of _scroll_page in which nothing raised ends after at most 10
\* scrolls, and before the tenth exactly at the first scroll that is the
\* third in a row to leave the title count unchanged (so after the third
\* scroll on a page whose count never changes).
ScrollStopsAfterThreeUnchanged ==
    (sc_pc = "done" /\ ~sc_error) =>
        /\ sc_scroll <= max_scrolls
        /\ sc_scroll < max_scrolls => UnchangedForThree(sc_scroll)
        /\ \A k \in 1..(sc_scroll - 1) : ~UnchangedForThree(k)

(***************************************************************************)
(* Claims about range texts in _convert_date                               *)
(***************************************************************************)
\* both segments of a range text, the first without its weekday, joined
\* again with the dash
RangeString(text) ==
    LET segments == Split(text, <<EnDash>>)
        first == Strip(Split(segments[1], <<",">>)[2])
    IN first \o <<" ", EnDash, " ">> \o Strip(segments[2])

\* C19 as stated: a range text is converted to the range string of its two
\* segments, and not to a DD/MM/YYYY token.
ConvertKeepsRange ==
    (d_pc = "converted" /\ d_input \in RangeInputs) =>
        d_result = Ok(RangeString(d_input))

\* what the first segment's day resolves to on the reference date
FirstDayToken(m, d) ==
    IF ~ValidDate(d_today.year, m, d) THEN DateTBD
    ELSE IF ~BeforeToday(m, d) THEN Strftime(DateOf(d_today.year, m, d))
    ELSE IF ValidDate(d_today.year + 1, m, d)
         THEN Strftime(DateOf(d_today.year + 1, m, d))
         ELSE DateTBD

\* C19, amended: a range text "Fri, <month> <day> - Sun, <month> <day>" is
\* converted like its first segment alone: to the DD/MM/YYYY token of the
\* first segment's day in the current or the next year, or to "Date TBD"
\* when that day does not exist there; the second segment and the dash are
\* ignored.
ConvertRangeToFirstDay ==
    d_pc = "converted" =>
        \A m \in {2, 3, 12}, d \in {15, 29}, m2 \in {3, 4}, d2 \in {2, 17} :
            d_input = RangeOf(MONTHS[m], IntText(d), MONTHS[m2], IntText(d2))
                => /\ d_result = Ok(FirstDayToken(m, d))
                   /\ ~Contains(d_result.value, <<EnDash>>)

\* C19 witness: "Fri, Mar 15 - Sun, Apr 2" read on 2024-06-01 gave 15/03/2025
ConvertRangeSeen ==
    /\ d_pc = "converted"
    /\ d_input = RangeOf(MONTHS[3], IntText(15), MONTHS[4], IntText(2))
    /\ d_today = [year |-> 2024, month |-> 6, day |-> 1]
    /\ d_result = Ok(<<"1", "5", "/", "0", "3", "/", "2", "0", "2", "5">>)

(***************************************************************************)
(* Claims about parse_with_llm                                             *)
(***************************************************************************)
\* the reply texts that are no JSON
NotJsonTexts ==
    { <<"H", "e", "r", "e", " ", "i", "s", " ", "t", "h", "e", " ", "J", "S", "O", "N">>,
      <<"{", "\"", "t", "i", "t", "l", "e", "\"", ":", " ", "\"", "x", "\"">>,
      <<"{", "\"", "t", "i", "t", "l", "e", "\"", " ", "\"", "x", "\"", "}">>,
      <<>> }

\* the request failed, or there is no "response" text, or it is no JSON
ReplyUnusable ==
    \/ l_reply.kind \in {"post_error", "body_error"}
    \/ ~l_reply.has_response
    \/ l_reply.response \in NotJsonTexts

\* the part of the prompt between the fixed texts of the template
PromptHtml ==
    SubSeq(l_prompt, Len(PromptPrefix) + 1, Len(l_prompt) - Len(PromptSuffix))

\* C20: parse_with_llm raises nothing; it returns the empty mapping when the
\* request fails, when the reply has no "response" member and when that text
\* is no JSON; the page text in the prompt is the first 1500 characters of
\* the input, or all of it when it is shorter.
LlmNeverRaises ==
    l_pc = "done" =>
        /\ ~l_result.raised
        /\ ReplyUnusable => l_result.value = <<>>
        /\ l_prompt # <<>> =>
              /\ SubSeq(l_prompt, 1, Len(PromptPrefix)) = PromptPrefix
              /\ Len(PromptHtml) <= 1500
              /\ Len(PromptHtml) = (IF Len(l_html) < 1500 THEN Len(l_html) ELSE 1500)
              /\ PromptHtml = SubSeq(l_html, 1, Len(PromptHtml))

\* C20 witness: a page of more than 1500 characters and a reply that is no
\* JSON: the prompt holds 1500 characters of the page, the result is empty
LlmBadReplySeen ==
    /\ l_pc = "done"
    /\ l_html # None
    /\ Len(l_html) > 1500
    /\ Len(PromptHtml) = 1500
    /\ l_reply.has_response
    /\ l_reply.response = <<"{", "\"", "t", "i", "t", "l", "e", "\"", ":", " ", "\"", "x", "\"">>
    /\ l_result = Ok(<<>>)

(***************************************************************************)
(* Claims about _extract_event_data and _parse_content                     *)
(***************************************************************************)
\* a text with a character that is no whitespace
HasText(x) == x # None /\ \E k \in 1..Len(x) : ~IsSpace(x[k])

\* the container has a title text and an events link below a root wrapper,
\* and nothing raises while it is read
Usable(c) == c.root /\ ~c.fault /\ HasText(c.title_span) /\ c.href # None

\* the strings in front of the first span of the place div have text
PrimaryHasText(c) ==
    /\ c.place_div.found
    /\ c.place_div.first_div
    /\ \E i \in 1..Len(c.place_div.contents) :
          /\ c.place_div.contents[i].is_str
          /\ HasText(c.place_div.contents[i].text)
          /\ \A j \in 1..(i - 1) : c.place_div.contents[j].name # "span"

\* DD/MM/YYYY
IsDateToken(x) ==
    /\ Len(x) = 10
    /\ x[3] = "/" /\ x[6] = "/"
    /\ \A k \in {1, 2, 4, 5, 7, 8, 9, 10} : IsDigit(x[k])

\* C17: every record of _extract_event_data has a title and a link with
\* text, a date that is a DD/MM/YYYY token or "Date TBD", and the place
\* "No location" when neither the place div nor the place link has text; a
\* container with title and link gives a record, under "Date TBD" when it
\* has no date span or a date text that says no day; a container without
\* title text or without events link gives none.
ExtractedRecordsWellFormed ==
    \A i \in 1..Len(p_extracted) :
        LET c == p_containers[i]
            e == p_extracted[i]
        IN /\ e # <<>> =>
                /\ HasText(DictGet(e, "title"))
                /\ HasText(DictGet(e, "link"))
                /\ IsDateToken(DictGet(e, "date")) \/ DictGet(e, "date") = DateTBD
                /\ HasText(DictGet(e, "place"))
                /\ (~PrimaryHasText(c) /\ ~HasText(c.place_link))
                      => DictGet(e, "place") = NoLocation
                /\ (c.date_span = None \/ c.date_span \in {<<>>, <<"T", "B", "A">>})
                      => DictGet(e, "date") = DateTBD
           /\ Usable(c) => e # <<>>
           /\ ~(HasText(c.title_span) /\ c.href # None) => e = <<>>

\* C17 witness: a container with title and link, the date text "TBA" and no
\* place gave a record under "Date TBD" at "No location"
ExtractUndatedSeen ==
    /\ Len(p_extracted) = 1
    /\ p_extracted[1] # <<>>
    /\ p_containers[1].date_span = <<"T", "B", "A">>
    /\ ~p_containers[1].place_div.found
    /\ p_containers[1].place_link = None
    /\ DictGet(p_extracted[1], "date") = DateTBD
    /\ DictGet(p_extracted[1], "place") = NoLocation
    /\ DictGet(p_extracted[1], "title") = <<"G", "i", "g">>
    /\ DictGet(p_extracted[1], "link") = <<"h", "t", "t", "p", "s", ":", "/", "/", "f", "a", "c", "e", "b", "o", "o", "k", ".", "c", "o", "m", "/", "e", "v", "e", "n", "t", "s", "/", "1", "/">>

\* the records extracted on a date, in document order, as they are stored
RecordsOn(date) ==
    LET on_date == SelectSeq(p_extracted,
                             LAMBDA e : e # <<>> /\ DictGet(e, "date") = date)
    IN [i \in 1..Len(on_date) |->
           [event_title |-> DictGet(on_date[i], "title"),
            event_link |-> DictGet(on_date[i], "link"),
            event_place |-> DictGet(on_date[i], "place")]]

\* C18: _parse_content raises nothing; when it returns, every container was
\* tried, every usable container has its record whatever happened to the
\* others, and the PageResult holds exactly the records extracted, each
\* date's bucket in document order.
ParseSkipsOnlyFailed ==
    /\ p_pc # "raised"
    /\ p_pc = "done" =>
          /\ Len(p_extracted) = Len(p_containers)
          /\ \A i \in 1..Len(p_containers) :
                Usable(p_containers[i]) => p_extracted[i] # <<>>
          /\ Keys(p_events) =
                {DictGet(p_extracted[i], "date") :
                    i \in {k \in 1..Len(p_extracted) : p_extracted[k] # <<>>}}
          /\ \A j \in 1..Len(p_events) :
                p_events[j].value = RecordsOn(p_events[j].key)

\* C18 witness: of three containers the second raised during extraction;
\* the first and the third are in the same bucket, in this order
ParseFailedMiddleSeen ==
    /\ p_pc = "done"
    /\ Len(p_containers) = 3
    /\ p_containers[2].fault
    /\ p_extracted[2] = <<>>
    /\ Len(p_events) = 1
    /\ Len(p_events[1].value) = 2
    /\ p_events[1].value[1].event_link = DictGet(p_extracted[1], "link")
    /\ p_events[1].value[2].event_link = DictGet(p_extracted[3], "link")
    /\ p_events[1].value[1].event_link # p_events[1].value[2].event_link

(***************************************************************************)
(* Claims about _clean_url                                                 *)
(***************************************************************************)
SiteOrigin == <<"h", "t", "t", "p", "s", ":", "/", "/", "f", "a", "c", "e", "b", "o", "o", "k", ".", "c", "o", "m">>

\* the characters of an href in front of its first '?'
RECURSIVE BeforeQuery(_)
BeforeQuery(href) ==
    IF href = <<>> \/ Head(href) = "?" THEN <<>>
    ELSE <<Head(href)>> \o BeforeQuery(Tail(href))

\* C21: the link returned by _clean_url has no '?' and ends with the href
\* up to its query string; an href that starts with '/' comes back as
\* "https://facebook.com" followed by its path, whatever the path holds;
\* _clean_url of the link is the link.
CleanUrlQualifiesRelative ==
    u_pc \in {"cleaned", "again"} =>
        /\ \A k \in 1..Len(u_link) : u_link[k] # "?"
        /\ Len(u_link) >= Len(BeforeQuery(u_href))
        /\ SubSeq(u_link, Len(u_link) - Len(BeforeQuery(u_href)) + 1, Len(u_link))
              = BeforeQuery(u_href)
        /\ (u_href # <<>> /\ Head(u_href) = "/")
              => u_link = SiteOrigin \o BeforeQuery(u_href)
        /\ u_pc = "again" => u_again = u_link

\* what holds of _clean_url: no '?', the href up to its query string at the
\* end, and the same link when cleaned again
CleanUrlStripsQuery ==
    u_pc \in {"cleaned", "again"} =>
        /\ \A k \in 1..Len(u_link) : u_link[k] # "?"
        /\ Len(u_link) >= Len(BeforeQuery(u_href))
        /\ SubSeq(u_link, Len(u_link) - Len(BeforeQuery(u_href)) + 1, Len(u_link))
              = BeforeQuery(u_href)
        /\ u_pc = "again" => u_again = u_link

\* a relative href with "facebook.com" in its path came back relative
CleanUrlLeftRelativeSeen ==
    /\ u_pc = "again"
    /\ u_href = <<"/", "e", "v", "e", "n", "t", "s", "/", "f", "a", "c", "e", "b", "o", "o", "k", ".", "c", "o", "m", "/", "?", "r", "e", "f", "=", "x">>
    /\ u_link = <<"/", "e", "v", "e", "n", "t", "s", "/", "f", "a", "c", "e", "b", "o", "o", "k", ".", "c", "o", "m", "/">>

(***************************************************************************)
(* More claims about _parse_content                                        *)
(***************************************************************************)
\* C22: no bucket of the PageResult returned by _parse_content holds the
\* same record (title, link and place) twice.
ParseBucketsAreSets ==
    p_pc = "done" =>
        \A j \in 1..Len(p_events) :
            \A a, b \in 1..Len(p_events[j].value) :
                a # b => p_events[j].value[a] # p_events[j].value[b]

\* two title elements below the same root container gave the same record
\* twice in one bucket
ParseSameRootTwiceSeen ==
    /\ p_pc = "done"
    /\ Len(p_containers) = 2
    /\ p_containers[1] = p_containers[2]
    /\ Len(p_events) = 1
    /\ Len(p_events[1].value) = 2
    /\ p_events[1].value[1] = p_events[1].value[2]

(***************************************************************************)
(* Claims about the ancestor walk                                          *)
(***************************************************************************)
\* C23: the walk that looks for the root container goes up by at most 10
\* ancestors and then gives up.
WalkWithinTenAncestors == w_steps <= 10

\* what holds: the walk goes up once per element of the chain at most, the
\* document object included, and so it ends on every document
WalkWithinTheChain == w_steps <= Len(w_chain)

\* a root eleven ancestors above the container was found
WalkFoundFarRootSeen ==
    /\ w_pc = "found"
    /\ w_steps = 11
    /\ w_chain[w_root] = Element("div", TRUE)

(***************************************************************************)
(* More claims about _convert_date                                         *)
(***************************************************************************)
\* a date as one number, for comparing
Ordinal(t) == t.year * 10000 + t.month * 100 + t.day

\* the date a DD/MM/YYYY text names
DateNamed(text) == DateOf(KeyYear(text), KeyMonth(text), KeyDay(text))

RelativeToday == { <<"T", "o", "d", "a", "y", " ", "a", "t", " ", "8", " ", "P", "M">>, <<"H", "a", "p", "p", "e", "n", "i", "n", "g", " ", "n", "o", "w">> }

RelativeTomorrow == { <<"T", "o", "m", "o", "r", "r", "o", "w", " ", "a", "t", " ", "1", "0", " ", "A", "M">> }

\* C24: a date returned by _convert_date is never before the reference date:
\* "today" and "happening now" give the reference date, "tomorrow" the day
\* after it, and a month/day text gives that month and day in the first year
\* from the reference year on in which it is not before the reference date.
ConvertNeverInThePast ==
    (d_pc = "converted" /\ d_result.value # DateTBD) =>
        LET found == DateNamed(d_result.value) IN
        /\ Ordinal(found) >= Ordinal(d_today)
        /\ d_input \in RelativeToday => found = d_today
        /\ d_input \in RelativeTomorrow => Ok(found) = AddDay(d_today)
        /\ \A wk \in Weekdays, m \in 1..12, d \in DayNumbers :
              d_input = AbsText(wk, MONTHS[m], IntText(d))
              => /\ found.month = m
                 /\ found.day = d
                 /\ \A y \in d_today.year..(found.year - 1) :
                       Ordinal(DateOf(y, m, d)) < Ordinal(d_today)

\* C24 witness: "Mon, Feb 1 at 7 PM" read on 2024-02-29 gave 01/02/2025
ConvertPastDayMovedSeen ==
    /\ d_pc = "converted"
    /\ d_input = AbsText(<<"M", "o", "n">>, MONTHS[2], IntText(1))
    /\ d_today = DateOf(2024, 2, 29)
    /\ d_result = Ok(<<"0", "1", "/", "0", "2", "/", "2", "0", "2", "5">>)

(***************************************************************************)
(* Claims about pages, context and browser                                 *)
(***************************************************************************)
\* _scrape_page is not between new_page() and the end of its finally block
OutsideScrapePage == r_pc \in {"idle", "attempt", "failed", "done", "cancelled"}

SavableKey(key) ==
    \/ key = DateTBD
    \/ /\ IsDateToken(key)
       /\ ValidDate(KeyYear(key), KeyMonth(key), KeyDay(key))

\* C26: every date key of the PageResult and of the merged dataset is a
\* DD/MM/YYYY text of a calendar day or "Date TBD"; _save_events does not
\* fail on converting the keys; and the document it has written holds the
\* keys of the merged dataset, each with the event list it had there.
PipelineKeysSurviveSave ==
    /\ \A key \in Keys(p_events) : SavableKey(key)
    /\ s_pc # "idle" =>
          /\ \A key \in Keys(s_events) : SavableKey(key)
          /\ ~SaveDoc.raised
    /\ s_pc = "saved" =>
          /\ Len(s_store) = Len(s_events)
          /\ Keys(s_store) = Keys(s_events)
          /\ \A key \in Keys(s_events) : DictGet(s_store, key) = DictGet(s_events, key)

\* C26 witness: a page with buckets for 15/03/2025, "Date TBD" and
\* 05/01/2025, found in this order, was written with the three buckets in the
\* order of their dates
PipelineThreeBucketsSavedSeen ==
    /\ s_pc = "saved"
    /\ Len(s_events) = 3
    /\ s_events[1].key = <<"1", "5", "/", "0", "3", "/", "2", "0", "2", "5">>
    /\ s_events[2].key = DateTBD
    /\ s_events[3].key = <<"0", "5", "/", "0", "1", "/", "2", "0", "2", "5">>
    /\ Len(s_store) = 3
    /\ s_store[1].key = <<"0", "5", "/", "0", "1", "/", "2", "0", "2", "5">>
    /\ s_store[2].key = <<"1", "5", "/", "0", "3", "/", "2", "0", "2", "5">>
    /\ s_store[3].key = DateTBD
    /\ s_store[2].value = s_events[1].value

====
